---- MODULE Spec2Model ----
(***************************************************************************)
(* Job orchestration and signal-relay pipeline of the WorldMind OS backend *)
(* (src/backend): the Job table, the three RQ queues and their worker      *)
(* functions, the RawEvent dedup at ingestion, the OracleSignal API and    *)
(* the OracleService monitor loop.                                         *)
(*                                                                         *)
(* Every commit (db.commit / session.commit) is one step: what a process   *)
(* does between two commits is local to its session and is folded into    *)
(* the step that ends with the commit.  Queries read the committed tables  *)
(* (READ COMMITTED) plus the session's own pending rows (SQLAlchemy's      *)
(* default autoflush).                                                     *)
(***************************************************************************)
EXTENDS Integers, Sequences, FiniteSets, TLC

\* ------------------------------------------------------------- bounds
MaxJobs == 2          \* Job rows ever created (ids 1..MaxJobs)
MaxBatch == 2         \* payloads one extraction returns
MaxResults == 1       \* AnalysisResults one analysis run returns
MaxAnalyses == 2      \* AnalysisResult rows ever created
MaxSignals == 2       \* OracleSignal rows ever created
MaxTx == 2            \* transactions the ledger accepts
MaxRequeue == 1       \* tasks put back on a queue after delivery

\* ---------------------------------------------------------- universes
NULL == "NULL"
NoRow == [type |-> "none"]

JobIds == 1..MaxJobs
SourceIds == {1}
DatasetIds == {1}
AnalysisIds == 1..MaxAnalyses
Hashes == {"h1", "h2"}
Severities == {"low", "medium", "high", "critical"}

ScrapeWorkers == {"sw1", "sw2"}
AnalysisWorkers == {"aw1"}
OracleWorkers == {"ow1"}
ApiProcs == {"a1", "a2"}
Monitors == {"m1", "m2"}

\* progress is kept in percent: 0.0, 0.2, 0.5, 0.8, 1.0
P000 == 0
P020 == 20
P050 == 50
P080 == 80
P100 == 100

VARIABLES
    jobs,            \* jobs table: JobIds -> row or NoRow
    nextJobId,       \* the jobs id sequence
    scraping_queue,  \* RQ queue 'scraping': tasks (job_id, source_id)
    analysis_queue,  \* RQ queue 'analysis': tasks (job_id, dataset_id)
    oracle_queue,    \* RQ queue 'oracle': tasks (job_id, analysis_result_id)
    sw,              \* scraping workers: position and session state
    aw,              \* analysis workers
    ow,              \* oracle workers
    raw_events,      \* raw_events table: rows per content_hash
    datasets,        \* datasets table: DatasetIds -> row_count written
    analysis_results,\* analysis_results table: sequence of severities (id = index)
    oracle_signals,  \* oracle_signals table: sequence of rows (id = index)
    api,             \* API request handlers in flight
    mon,             \* OracleService.monitor_and_send loops
    ledger,          \* the chain: submitted transactions and their receipts
    settings,        \* ORACLE_ENABLED and whether OracleService has w3 and account
    delivered,       \* tasks the queues have handed to a worker
    requeues,        \* tasks put back on their queue after delivery
    fetch,           \* the _extract_web_data call in progress and its requests
    call             \* a call of a hash or payload function: arguments and result

vars == <<jobs, nextJobId, scraping_queue, analysis_queue, oracle_queue, sw, aw, ow,
          raw_events, datasets, analysis_results, oracle_signals, api, mon, ledger,
          settings, delivered, requeues, fetch, call>>

\* ------------------------------------------------------------ helpers
\* Job(type=..., status='pending', input_data=...) with the column defaults
NewJob(type, input) ==
    [type |-> type, status |-> "pending", input_data |-> input,
     output_data |-> <<>>, progress |-> P000, error_message |-> NULL,
     started_at |-> 0, completed_at |-> 0]

JobExists(j) == j \in JobIds /\ jobs[j] # NoRow

StatusOf(j) == IF JobExists(j) THEN jobs[j].status ELSE "none"

\* started_at / completed_at hold the number of times the column was written
\* (0 is SQL NULL): the wall-clock value itself is not modelled.
Stamp(old) == IF old < 2 THEN old + 1 ELSE old

IdleScrape == [pc |-> "idle", job_id |-> 0, source_id |-> 0, extracted_data |-> <<>>,
               idx |-> 0, new_events |-> 0, added |-> <<>>]

IdleAnalysis == [pc |-> "idle", job_id |-> 0, dataset_id |-> 0, n_events |-> 0,
                 results |-> <<>>]

IdleOracle == [pc |-> "idle", job_id |-> 0, analysis_result_id |-> 0]

IdleMonitor == [pc |-> "idle", pending |-> <<>>, k |-> 0, loaded |-> <<>>, nonce |-> 0,
                tx_hash |-> 0, committed |-> FALSE]

IdleApi == [pc |-> "idle", op |-> "none", arg |-> 0, job_id |-> 0, code |-> 0]

Count(seq, x) == Cardinality({i \in DOMAIN seq : seq[i] = x})

\* --------------------------------------------------------------- Init
\* No _extract_web_data call in progress. job_id is the Job the call is made
\* for, k the URL being fetched, retries the argument of the current
\* _make_request frame, requests the client.get calls made for the URL so
\* far, last the outcome of the latest one.
IdleFetch == [pc |-> "idle", job_id |-> 0, n |-> 0, k |-> 0, retries |-> 0,
              requests |-> 0, last |-> "none", results |-> <<>>, ret |-> <<>>,
              error |-> NULL]

\* No function call under study.
NoCall == [fn |-> "none"]

InitRows ==
    /\ jobs = [j \in JobIds |-> NoRow]
    /\ nextJobId = 1
    /\ scraping_queue = <<>>
    /\ analysis_queue = <<>>
    /\ oracle_queue = <<>>
    /\ sw = [w \in ScrapeWorkers |-> IdleScrape]
    /\ aw = [w \in AnalysisWorkers |-> IdleAnalysis]
    /\ ow = [w \in OracleWorkers |-> IdleOracle]
    /\ raw_events = [h \in Hashes |-> 0]
    /\ datasets = [d \in DatasetIds |-> 0]
    /\ oracle_signals = <<>>
    /\ api = [a \in ApiProcs |-> IdleApi]
    /\ mon = [m \in Monitors |-> IdleMonitor]
    /\ ledger = <<>>
    /\ delivered = {}
    /\ requeues = 0
    /\ fetch = IdleFetch

InitTables == InitRows /\ call = NoCall

Configs == [ORACLE_ENABLED : BOOLEAN, web3 : BOOLEAN]

\* What analyze_dataset can return: one severity per result.
ResultLists == UNION {[1..n -> Severities] : n \in 0..MaxResults}

\* The whole system under any configuration: no Job yet, and the analysis
\* results that one earlier analysis run has left.
Init ==
    /\ InitTables
    /\ analysis_results \in ResultLists
    /\ settings \in Configs

\* ------------------------------------------------------ RQ queues
Task(job_id, arg) == [job_id |-> job_id, arg |-> arg]

\* db.add(job); db.commit(); db.refresh(job): the row gets the next id
InsertJob(type, input) == [jobs EXCEPT ![nextJobId] = NewJob(type, input)]

\* The response of a request handler; the slot is free for the next request
\* and keeps the last rejection it answered.
Respond(a, op, arg, job_id, code) ==
    [api EXCEPT ![a] = IF code = 200 THEN IdleApi
                       ELSE [pc |-> "idle", op |-> op, arg |-> arg, job_id |-> job_id,
                             code |-> code]]

\* Requests in flight that will still insert a Job, or a Signal: the bounds
\* are checked when a request starts, so that none stops half way.
JobInserts == Cardinality({b \in ApiProcs : api[b].pc \in {"insert_signal", "reset", "insert_job"}})
SignalInserts == Cardinality({b \in ApiProcs : api[b].pc = "insert_signal"})
RoomForJob == nextJobId + JobInserts <= MaxJobs
RoomForSignal == Len(oracle_signals) + SignalInserts < MaxSignals

\* ------------------------------------------- API: trigger_extraction
\* lines 137-160: source lookup, Job(type='scrape', status='pending'), commit
TriggerExtraction(a, source_id) ==
    /\ api[a].pc = "idle"
    /\ IF source_id \notin SourceIds
       THEN /\ api' = Respond(a, "trigger_extraction", source_id, 0, 404)
            /\ UNCHANGED <<jobs, nextJobId>>
       ELSE /\ RoomForJob
            /\ jobs' = InsertJob("scrape", <<source_id>>)
            /\ nextJobId' = nextJobId + 1
            /\ api' = [api EXCEPT ![a] = [pc |-> "enqueue", op |-> "trigger_extraction",
                                          arg |-> source_id, job_id |-> nextJobId,
                                          code |-> 0]]
    /\ UNCHANGED <<scraping_queue, analysis_queue, oracle_queue, sw, aw, ow, raw_events,
                   datasets, analysis_results, oracle_signals, mon, ledger, settings,
                   delivered, requeues,
                   fetch, call>>

\* line 163: enqueue_scraping_job(job.id, source_id), then the response
EnqueueScraping(a) ==
    /\ api[a].pc = "enqueue"
    /\ api[a].op = "trigger_extraction"
    /\ scraping_queue' = Append(scraping_queue, Task(api[a].job_id, api[a].arg))
    /\ api' = Respond(a, api[a].op, api[a].arg, api[a].job_id, 200)
    /\ UNCHANGED <<jobs, nextJobId, analysis_queue, oracle_queue, sw, aw, ow, raw_events,
                   datasets, analysis_results, oracle_signals, mon, ledger, settings,
                   delivered, requeues,
                   fetch, call>>

\* ---------------------------------------- worker: process_scraping_job
\* What the extraction collaborator can return for a source.
Batches == UNION {[1..n -> Hashes] : n \in 0..MaxBatch}

\* An RQ worker pops the oldest task of its queue and calls the function.
ScrapeDequeue(w) ==
    /\ sw[w].pc = "idle"
    /\ scraping_queue # <<>>
    /\ LET t == Head(scraping_queue) IN
         /\ sw' = [sw EXCEPT ![w] = [IdleScrape EXCEPT !.pc = "start",
                                     !.job_id = t.job_id, !.source_id = t.arg]]
         /\ delivered' = delivered \cup {[queue |-> "scraping", task |-> t]}
    /\ scraping_queue' = Tail(scraping_queue)
    /\ UNCHANGED <<jobs, nextJobId, analysis_queue, oracle_queue, aw, ow, raw_events,
                   datasets, analysis_results, oracle_signals, api, mon, ledger, settings,
                   requeues,
                   fetch, call>>

\* lines 71-79 (and 149-157, 230-236): the row is read and written running,
\* whatever status it has.
\* A start step that stamps started_at and leaves the status as it was.
MarkRunningKeepsStatus(row) ==
    [row EXCEPT !.started_at = Stamp(row.started_at)]

MarkRunning(row) ==
    [row EXCEPT !.status = "running", !.started_at = Stamp(row.started_at)]

\* A completion commit that stores the output and leaves the status as it was.
MarkCompletedKeepsStatus(row, output) ==
    [row EXCEPT !.completed_at = Stamp(row.completed_at), !.output_data = output]

\* lines 122-129: the completion commit
MarkCompleted(row, output) ==
    [row EXCEPT !.status = "completed", !.completed_at = Stamp(row.completed_at),
                !.output_data = output]

\* An except handler that also sets the progress to 1.0.
MarkFailedFullProgress(row, msg) ==
    [row EXCEPT !.status = "failed", !.error_message = msg, !.progress = P100,
                !.completed_at = Stamp(row.completed_at)]

\* An except handler that leaves completed_at as it was.
MarkFailedNoStamp(row, msg) ==
    [row EXCEPT !.status = "failed", !.error_message = msg]

\* lines 133-138: the except handler's commit
MarkFailed(row, msg) ==
    [row EXCEPT !.status = "failed", !.error_message = msg,
                !.completed_at = Stamp(row.completed_at)]

ScrapeStart(w) ==
    /\ sw[w].pc = "start"
    /\ IF ~JobExists(sw[w].job_id)
       THEN /\ sw' = [sw EXCEPT ![w] = IdleScrape]
            /\ UNCHANGED jobs
       ELSE /\ jobs' = [jobs EXCEPT ![sw[w].job_id] =
                            [MarkRunning(@) EXCEPT !.progress = P000]]
            /\ sw' = [sw EXCEPT ![w].pc = "extract"]
    /\ UNCHANGED <<nextJobId, scraping_queue, analysis_queue, oracle_queue, aw, ow,
                   raw_events, datasets, analysis_results, oracle_signals, api, mon,
                   ledger, settings, delivered, requeues,
                   fetch, call>>

\* lines 92-97: the collaborator has returned batch; progress 0.5 is committed
ExtractReturn(w, batch) ==
    /\ sw[w].pc = "extract"
    /\ JobExists(sw[w].job_id)
    /\ sw[w].source_id \in SourceIds
    /\ sw' = [sw EXCEPT ![w].pc = "store", ![w].extracted_data = batch, ![w].idx = 1]
    /\ jobs' = [jobs EXCEPT ![sw[w].job_id].progress = P050]
    /\ UNCHANGED <<nextJobId, scraping_queue, analysis_queue, oracle_queue, aw, ow,
                   raw_events, datasets, analysis_results, oracle_signals, api, mon,
                   ledger, settings, delivered, requeues, call>>

\* lines 84-97 with the collaborator call taken as one step
ScrapeExtract(w) ==
    /\ \E batch \in Batches : ExtractReturn(w, batch)
    /\ UNCHANGED fetch

\* lines 84-94 have raised e, then lines 133-138 with str(e) = msg
ExtractRaise(w, msg) ==
    /\ sw[w].pc = "extract"
    /\ JobExists(sw[w].job_id)
    /\ jobs' = [jobs EXCEPT ![sw[w].job_id] = MarkFailed(@, msg)]
    /\ sw' = [sw EXCEPT ![w] = IdleScrape]
    /\ UNCHANGED <<nextJobId, scraping_queue, analysis_queue, oracle_queue, aw, ow,
                   raw_events, datasets, analysis_results, oracle_signals, api, mon,
                   ledger, settings, delivered, requeues, call>>

\* lines 84-94 raising (source gone, collaborator error), then lines 133-138
ScrapeExtractFails(w) ==
    /\ ExtractRaise(w, "extraction error")
    /\ UNCHANGED fetch

\* lines 104-106: the duplicate check sees the committed rows and the rows
\* this session has added
\* A duplicate check that sees the committed rows only.
ExistingCommitted(w, h) == raw_events[h] > 0

Existing(w, h) == raw_events[h] > 0 \/ Count(sw[w].added, h) > 0

\* lines 101-116: one pass of the loop body
ScrapeStoreOne(w) ==
    /\ sw[w].pc = "store"
    /\ sw[w].idx <= Len(sw[w].extracted_data)
    /\ LET h == sw[w].extracted_data[sw[w].idx] IN
         sw' = IF Existing(w, h)
               THEN [sw EXCEPT ![w].idx = @ + 1]
               ELSE [sw EXCEPT ![w].idx = @ + 1, ![w].added = Append(@, h),
                               ![w].new_events = @ + 1]
    /\ UNCHANGED <<jobs, nextJobId, scraping_queue, analysis_queue, oracle_queue, aw, ow,
                   raw_events, datasets, analysis_results, oracle_signals, api, mon,
                   ledger, settings, delivered, requeues,
                   fetch, call>>

\* line 118: the added rows are committed
ScrapeCommitEvents(w) ==
    /\ sw[w].pc = "store"
    /\ sw[w].idx > Len(sw[w].extracted_data)
    /\ raw_events' = [h \in Hashes |-> raw_events[h] + Count(sw[w].added, h)]
    /\ sw' = [sw EXCEPT ![w].pc = "complete", ![w].added = <<>>]
    /\ UNCHANGED <<jobs, nextJobId, scraping_queue, analysis_queue, oracle_queue, aw, ow,
                   datasets, analysis_results, oracle_signals, api, mon, ledger, settings,
                   delivered, requeues,
                   fetch, call>>

\* line 118 raising (the source row was deleted meanwhile and the foreign key
\* of the added rows fails, or the database fails the commit), then lines
\* 133-138: when the COMMIT failed the handler's commit records the failure;
\* when the flush failed the session refuses the handler's commit, the
\* error leaves the function and the Job row stays as it is
ScrapeStoreFails(w) ==
    /\ sw[w].pc = "store"
    /\ sw[w].idx > Len(sw[w].extracted_data)
    /\ JobExists(sw[w].job_id)
    /\ \E handled \in BOOLEAN :
         /\ ~handled => sw[w].added # <<>>
         /\ jobs' = IF handled
                    THEN [jobs EXCEPT ![sw[w].job_id] = MarkFailed(@, "store error")]
                    ELSE jobs
    /\ sw' = [sw EXCEPT ![w] = IdleScrape]
    /\ UNCHANGED <<nextJobId, scraping_queue, analysis_queue, oracle_queue, aw, ow,
                   raw_events, datasets, analysis_results, oracle_signals, api, mon,
                   ledger, settings, delivered, requeues,
                   fetch, call>>

\* lines 119-129
ScrapeComplete(w) ==
    /\ sw[w].pc = "complete"
    /\ JobExists(sw[w].job_id)
    /\ LET n == Len(sw[w].extracted_data) IN
         jobs' = [jobs EXCEPT ![sw[w].job_id] =
                     [MarkCompleted(@, <<n, sw[w].new_events, n - sw[w].new_events>>)
                        EXCEPT !.progress = P100]]
    /\ sw' = [sw EXCEPT ![w] = IdleScrape]
    /\ UNCHANGED <<nextJobId, scraping_queue, analysis_queue, oracle_queue, aw, ow,
                   raw_events, datasets, analysis_results, oracle_signals, api, mon,
                   ledger, settings, delivered, requeues,
                   fetch, call>>

ScrapeApi(A) ==
    \/ \E a \in A, s \in SourceIds : TriggerExtraction(a, s)
    \/ \E a \in A : EnqueueScraping(a)

ScrapeWork(W) ==
    \/ \E w \in W : ScrapeDequeue(w)
    \/ \E w \in W : ScrapeStart(w)
    \/ \E w \in W : ScrapeExtract(w)
    \/ \E w \in W : ScrapeExtractFails(w)
    \/ \E w \in W : ScrapeStoreOne(w)
    \/ \E w \in W : ScrapeCommitEvents(w)
    \/ \E w \in W : ScrapeStoreFails(w)
    \/ \E w \in W : ScrapeComplete(w)

\* ------------------------------------- ScrapingService: the web collaborator
\* settings.MAX_RETRIES
MAX_RETRIES == 3

\* URLs in one source's config
MaxUrls == 2

\* What client.get followed by raise_for_status can do (lines 113-114): a
\* response, or an exception. TransportError (timeout, connection), the
\* HTTPStatusError of a 5xx answer and the HTTPStatusError of a 4xx answer
\* are httpx.HTTPError; InvalidURL is not.
HTTPErrors == {"TransportError", "ServerError", "ClientError"}
Transient == {"TransportError", "ServerError"}
Outcomes == {"ok"} \cup HTTPErrors \cup {"InvalidURL"}

FetchFrame == <<jobs, nextJobId, scraping_queue, analysis_queue, oracle_queue, sw, aw,
                ow, raw_events, datasets, analysis_results, oracle_signals, api, mon,
                ledger, settings, delivered, requeues, call>>

\* lines 91-92 and 270-283: the call starts; no URL gives [] at once
ExtractWebData(w) ==
    /\ sw[w].pc = "extract"
    /\ fetch.pc \in {"idle", "done"}
    /\ JobExists(sw[w].job_id)
    /\ sw[w].source_id \in SourceIds
    /\ \E n \in 0..MaxUrls :
         fetch' = IF n = 0
                  THEN [IdleFetch EXCEPT !.pc = "returned", !.job_id = sw[w].job_id]
                  ELSE [IdleFetch EXCEPT !.pc = "request", !.job_id = sw[w].job_id,
                                         !.n = n, !.k = 1]
    /\ UNCHANGED FetchFrame

\* bulk_fetch lines 67-75: the exceptions are dropped from the gathered list
ValidResults(results) ==
    LET valid == SelectSeq(results, LAMBDA r : r.value \in Hashes)
    IN [i \in 1..Len(valid) |-> valid[i].value]

\* fetch_web_page has ended for URL k with value (a page's content_hash, or
\* the exception raised): _extract_web_data lines 282-287
UrlDone(value, requests, last) ==
    LET results == Append(fetch.results, [value |-> value, requests |-> requests])
        done == [fetch EXCEPT !.results = results, !.requests = 0, !.retries = 0,
                              !.last = last]
    IN IF fetch.n = 1
       THEN IF value \in Hashes
            THEN [done EXCEPT !.pc = "returned", !.ret = <<value>>]
            ELSE [done EXCEPT !.pc = "raised", !.error = value]
       ELSE IF fetch.k < fetch.n
            THEN [done EXCEPT !.pc = "request", !.k = fetch.k + 1, !.last = "none"]
            ELSE [done EXCEPT !.pc = "returned", !.ret = ValidResults(results)]

\* lines 117-118: the exceptions _make_request answers with a retry
Retry(outcome, retries) == outcome \in HTTPErrors /\ retries < MAX_RETRIES

\* _make_request lines 111-122, one frame: the request, then the response
\* (read by fetch_web_page lines 45-56), the backoff, or the exception
MakeRequest ==
    /\ fetch.pc = "request"
    /\ fetch.requests <= MAX_RETRIES + 1
    /\ \E outcome \in Outcomes :
         IF outcome = "ok"
         THEN \E h \in Hashes : fetch' = UrlDone(h, fetch.requests + 1, outcome)
         ELSE IF Retry(outcome, fetch.retries)
         THEN fetch' = [fetch EXCEPT !.pc = "backoff", !.last = outcome,
                                     !.requests = @ + 1]
         ELSE fetch' = UrlDone(outcome, fetch.requests + 1, outcome)
    /\ UNCHANGED FetchFrame

\* lines 119-121: the sleep, then the next frame
Backoff ==
    /\ fetch.pc = "backoff"
    /\ fetch' = [fetch EXCEPT !.pc = "request", !.retries = @ + 1]
    /\ UNCHANGED FetchFrame

\* backend_workers.py lines 92-97: the call returns its list
FetchReturns(w) ==
    /\ fetch.pc = "returned"
    /\ ExtractReturn(w, fetch.ret)
    /\ fetch' = [fetch EXCEPT !.pc = "done"]

\* backend_workers.py lines 92, 133-138: the call raises
FetchRaises(w) ==
    /\ fetch.pc = "raised"
    /\ ExtractRaise(w, fetch.error)
    /\ fetch' = [fetch EXCEPT !.pc = "done"]

\* backend_workers.py lines 84-86: the source is gone before the call
SourceNotFound(w) ==
    /\ fetch.pc \in {"idle", "done"}
    /\ ExtractRaise(w, "Source not found")
    /\ UNCHANGED fetch

FetchWork(W) ==
    \/ \E w \in W : ScrapeDequeue(w)
    \/ \E w \in W : ScrapeStart(w)
    \/ \E w \in W : SourceNotFound(w)
    \/ \E w \in W : ExtractWebData(w)
    \/ MakeRequest
    \/ Backoff
    \/ \E w \in W : FetchReturns(w)
    \/ \E w \in W : FetchRaises(w)
    \/ \E w \in W : ScrapeStoreOne(w)
    \/ \E w \in W : ScrapeCommitEvents(w)
    \/ \E w \in W : ScrapeStoreFails(w)
    \/ \E w \in W : ScrapeComplete(w)

\* --------------------------------------------- API: trigger_analysis
\* backend_routes_analysis.py lines 93-112
TriggerAnalysis(a, dataset_id) ==
    /\ api[a].pc = "idle"
    /\ IF dataset_id \notin DatasetIds
       THEN /\ api' = Respond(a, "trigger_analysis", dataset_id, 0, 404)
            /\ UNCHANGED <<jobs, nextJobId>>
       ELSE /\ RoomForJob
            /\ jobs' = InsertJob("analyze", <<dataset_id>>)
            /\ nextJobId' = nextJobId + 1
            /\ api' = [api EXCEPT ![a] = [pc |-> "enqueue", op |-> "trigger_analysis",
                                          arg |-> dataset_id, job_id |-> nextJobId,
                                          code |-> 0]]
    /\ UNCHANGED <<scraping_queue, analysis_queue, oracle_queue, sw, aw, ow, raw_events,
                   datasets, analysis_results, oracle_signals, mon, ledger, settings,
                   delivered, requeues,
                   fetch, call>>

\* An enqueue helper that puts the analysis task on the scraping queue.
EnqueueAnalysisOnScraping(a) ==
    /\ api[a].pc = "enqueue"
    /\ api[a].op = "trigger_analysis"
    /\ scraping_queue' = Append(scraping_queue, Task(api[a].job_id, api[a].arg))
    /\ api' = Respond(a, api[a].op, api[a].arg, api[a].job_id, 200)
    /\ UNCHANGED <<jobs, nextJobId, analysis_queue, oracle_queue, sw, aw, ow, raw_events,
                   datasets, analysis_results, oracle_signals, mon, ledger, settings,
                   delivered, requeues, fetch, call>>

\* line 115: enqueue_analysis_job(job.id, dataset_id, categories)
EnqueueAnalysis(a) ==
    /\ api[a].pc = "enqueue"
    /\ api[a].op = "trigger_analysis"
    /\ analysis_queue' = Append(analysis_queue, Task(api[a].job_id, api[a].arg))
    /\ api' = Respond(a, api[a].op, api[a].arg, api[a].job_id, 200)
    /\ UNCHANGED <<jobs, nextJobId, scraping_queue, oracle_queue, sw, aw, ow, raw_events,
                   datasets, analysis_results, oracle_signals, mon, ledger, settings,
                   delivered, requeues,
                   fetch, call>>

\* ---------------------------------------- worker: process_analysis_job
AnalysisDequeue(w) ==
    /\ aw[w].pc = "idle"
    /\ analysis_queue # <<>>
    /\ LET t == Head(analysis_queue) IN
         /\ aw' = [aw EXCEPT ![w] = [IdleAnalysis EXCEPT !.pc = "start",
                                     !.job_id = t.job_id, !.dataset_id = t.arg]]
         /\ delivered' = delivered \cup {[queue |-> "analysis", task |-> t]}
    /\ analysis_queue' = Tail(analysis_queue)
    /\ UNCHANGED <<jobs, nextJobId, scraping_queue, oracle_queue, sw, ow, raw_events,
                   datasets, analysis_results, oracle_signals, api, mon, ledger, settings,
                   requeues,
                   fetch, call>>

\* lines 149-157
AnalysisStart(w) ==
    /\ aw[w].pc = "start"
    /\ IF ~JobExists(aw[w].job_id)
       THEN /\ aw' = [aw EXCEPT ![w] = IdleAnalysis]
            /\ UNCHANGED jobs
       ELSE /\ jobs' = [jobs EXCEPT ![aw[w].job_id] =
                            [MarkRunning(@) EXCEPT !.progress = P000]]
            /\ aw' = [aw EXCEPT ![w].pc = "load"]
    /\ UNCHANGED <<nextJobId, scraping_queue, analysis_queue, oracle_queue, sw, ow,
                   raw_events, datasets, analysis_results, oracle_signals, api, mon,
                   ledger, settings, delivered, requeues,
                   fetch, call>>

\* lines 167-169: the raw events of the dataset's sources (every source here)
EventRows == raw_events["h1"] + raw_events["h2"]

\* lines 162-175: dataset and events are found, progress 0.2 is committed;
\* a missing dataset or no events raises, and lines 215-220 fail the Job
AnalysisLoad(w) ==
    /\ aw[w].pc = "load"
    /\ JobExists(aw[w].job_id)
    /\ IF aw[w].dataset_id \in DatasetIds /\ EventRows > 0
       THEN /\ jobs' = [jobs EXCEPT ![aw[w].job_id].progress = P020]
            /\ aw' = [aw EXCEPT ![w].pc = "analyze", ![w].n_events = EventRows]
       ELSE /\ jobs' = [jobs EXCEPT ![aw[w].job_id] = MarkFailed(@, "No data found")]
            /\ aw' = [aw EXCEPT ![w] = IdleAnalysis]
    /\ UNCHANGED <<nextJobId, scraping_queue, analysis_queue, oracle_queue, sw, ow,
                   raw_events, datasets, analysis_results, oracle_signals, api, mon,
                   ledger, settings, delivered, requeues,
                   fetch, call>>

\* lines 178-182: the collaborator returns, progress 0.8 is committed
AnalysisRun(w) ==
    /\ aw[w].pc = "analyze"
    /\ JobExists(aw[w].job_id)
    /\ \E results \in ResultLists :
         /\ Len(analysis_results) + Len(results) <= MaxAnalyses
         /\ aw' = [aw EXCEPT ![w].pc = "store", ![w].results = results]
    /\ jobs' = [jobs EXCEPT ![aw[w].job_id].progress = P080]
    /\ UNCHANGED <<nextJobId, scraping_queue, analysis_queue, oracle_queue, sw, ow,
                   raw_events, datasets, analysis_results, oracle_signals, api, mon,
                   ledger, settings, delivered, requeues,
                   fetch, call>>

\* A worker that answers a raising collaborator by loading and calling again.
AnalysisRunRetries(w) ==
    /\ aw[w].pc = "analyze"
    /\ JobExists(aw[w].job_id)
    /\ jobs' = [jobs EXCEPT ![aw[w].job_id].error_message = "analysis error"]
    /\ aw' = [aw EXCEPT ![w].pc = "load"]
    /\ UNCHANGED <<nextJobId, scraping_queue, analysis_queue, oracle_queue, sw, ow,
                   raw_events, datasets, analysis_results, oracle_signals, api, mon,
                   ledger, settings, delivered, requeues, fetch, call>>

\* line 179 raising, then lines 215-220
AnalysisRunFails(w) ==
    /\ aw[w].pc = "analyze"
    /\ JobExists(aw[w].job_id)
    /\ jobs' = [jobs EXCEPT ![aw[w].job_id] = MarkFailed(@, "analysis error")]
    /\ aw' = [aw EXCEPT ![w] = IdleAnalysis]
    /\ UNCHANGED <<nextJobId, scraping_queue, analysis_queue, oracle_queue, sw, ow,
                   raw_events, datasets, analysis_results, oracle_signals, api, mon,
                   ledger, settings, delivered, requeues,
                   fetch, call>>

\* lines 185-201: the results and the dataset update are committed
AnalysisStore(w) ==
    /\ aw[w].pc = "store"
    /\ analysis_results' = analysis_results \o aw[w].results
    /\ datasets' = [datasets EXCEPT ![aw[w].dataset_id] = aw[w].n_events]
    /\ aw' = [aw EXCEPT ![w].pc = "complete"]
    /\ UNCHANGED <<jobs, nextJobId, scraping_queue, analysis_queue, oracle_queue, sw, ow,
                   raw_events, oracle_signals, api, mon, ledger, settings, delivered,
                   requeues,
                   fetch, call>>

\* lines 202-211
AnalysisComplete(w) ==
    /\ aw[w].pc = "complete"
    /\ JobExists(aw[w].job_id)
    /\ jobs' = [jobs EXCEPT ![aw[w].job_id] =
                   [MarkCompleted(@, <<Len(aw[w].results)>>) EXCEPT !.progress = P100]]
    /\ aw' = [aw EXCEPT ![w] = IdleAnalysis]
    /\ UNCHANGED <<nextJobId, scraping_queue, analysis_queue, oracle_queue, sw, ow,
                   raw_events, datasets, analysis_results, oracle_signals, api, mon,
                   ledger, settings, delivered, requeues,
                   fetch, call>>

AnalysisApi(A) ==
    \/ \E a \in A, d \in DatasetIds : TriggerAnalysis(a, d)
    \/ \E a \in A : EnqueueAnalysis(a)

AnalysisWork(W) ==
    \/ \E w \in W : AnalysisDequeue(w)
    \/ \E w \in W : AnalysisStart(w)
    \/ \E w \in W : AnalysisLoad(w)
    \/ \E w \in W : AnalysisRun(w)
    \/ \E w \in W : AnalysisRunFails(w)
    \/ \E w \in W : AnalysisStore(w)
    \/ \E w \in W : AnalysisComplete(w)

\* ------------------------------------------ API: create_oracle_signal
\* tx_hash 0 and sent_at 0 are SQL NULL; a transaction's hash is its place
\* on the ledger.  attempt counts the resets of the row (no column of the
\* table: it tells one relay attempt from the next).
NewSignal(aid) ==
    [analysis_result_id |-> aid, severity |-> analysis_results[aid], status |-> "pending",
     tx_hash |-> 0, tx_status |-> NULL, sent_at |-> 0, attempt |-> 1]

SignalIds == DOMAIN oracle_signals

SignalsFor(aid) == {s \in SignalIds : oracle_signals[s].analysis_result_id = aid}

\* backend_routes_oracle.py lines 104-137: the four rejections, in order
\* The checks without the lookup of an existing signal.
CreateCodeNoExisting(aid) ==
    IF ~settings.ORACLE_ENABLED THEN 503
    ELSE IF aid \notin DOMAIN analysis_results THEN 404
    ELSE IF analysis_results[aid] \notin {"high", "critical"} THEN 400
    ELSE 0

\* The checks without the severity gate.
CreateCodeNoSeverity(aid) ==
    IF ~settings.ORACLE_ENABLED THEN 503
    ELSE IF aid \notin DOMAIN analysis_results THEN 404
    ELSE IF SignalsFor(aid) # {} THEN 400
    ELSE 0

CreateCode(aid) ==
    IF ~settings.ORACLE_ENABLED THEN 503
    ELSE IF aid \notin DOMAIN analysis_results THEN 404
    ELSE IF analysis_results[aid] \notin {"high", "critical"} THEN 400
    ELSE IF SignalsFor(aid) # {} THEN 400
    ELSE 0

\* lines 104-137: the checks; a request that passes them goes on to insert
CreateOracleSignal(a, aid) ==
    /\ api[a].pc = "idle"
    /\ CreateCode(aid) = 0 => RoomForJob /\ RoomForSignal
    /\ api' = IF CreateCode(aid) # 0
              THEN Respond(a, "create_oracle_signal", aid, 0, CreateCode(aid))
              ELSE [api EXCEPT ![a] = [pc |-> "insert_signal",
                                       op |-> "create_oracle_signal", arg |-> aid,
                                       job_id |-> 0, code |-> 0]]
    /\ UNCHANGED <<jobs, nextJobId, scraping_queue, analysis_queue, oracle_queue, sw, aw,
                   ow, raw_events, datasets, analysis_results, oracle_signals, mon, ledger,
                   settings, delivered, requeues,
                   fetch, call>>

\* lines 140-157: db.add(oracle_signal); db.commit()
CreateInsertSignal(a) ==
    /\ api[a].pc = "insert_signal"
    /\ oracle_signals' = Append(oracle_signals, NewSignal(api[a].arg))
    /\ api' = [api EXCEPT ![a].pc = "insert_job", ![a].arg = Len(oracle_signals) + 1]
    /\ UNCHANGED <<jobs, nextJobId, scraping_queue, analysis_queue, oracle_queue, sw, aw,
                   ow, raw_events, datasets, analysis_results, mon, ledger, settings,
                   delivered, requeues,
                   fetch, call>>

\* lines 160-171 and 221-232: Job(type='oracle_signal', status='pending')
OracleInsertJob(a) ==
    /\ api[a].pc = "insert_job"
    /\ jobs' = InsertJob("oracle_signal",
                         <<api[a].arg, oracle_signals[api[a].arg].analysis_result_id>>)
    /\ nextJobId' = nextJobId + 1
    /\ api' = [api EXCEPT ![a].pc = "enqueue", ![a].job_id = nextJobId]
    /\ UNCHANGED <<scraping_queue, analysis_queue, oracle_queue, sw, aw, ow, raw_events,
                   datasets, analysis_results, oracle_signals, mon, ledger, settings,
                   delivered, requeues,
                   fetch, call>>

\* lines 174 and 235: enqueue_oracle_job(job.id, analysis_result_id)
EnqueueOracle(a) ==
    /\ api[a].pc = "enqueue"
    /\ api[a].op \in {"create_oracle_signal", "retry_oracle_signal"}
    /\ oracle_queue' = Append(oracle_queue,
            Task(api[a].job_id, oracle_signals[api[a].arg].analysis_result_id))
    /\ api' = Respond(a, api[a].op, api[a].arg, api[a].job_id, 200)
    /\ UNCHANGED <<jobs, nextJobId, scraping_queue, analysis_queue, sw, aw, ow, raw_events,
                   datasets, analysis_results, oracle_signals, mon, ledger, settings,
                   delivered, requeues,
                   fetch, call>>

\* ------------------------------------------- API: retry_oracle_signal
\* The ORM's UPDATE carries the attributes whose assigned value differs
\* from the value the session loaded.
Flush(cur, loaded, assigned) ==
    [f \in DOMAIN cur |-> IF assigned[f] # loaded[f] THEN assigned[f] ELSE cur[f]]

\* lines 192-210
RetryCode(sid) ==
    IF ~settings.ORACLE_ENABLED THEN 503
    ELSE IF sid \notin SignalIds THEN 404
    ELSE IF oracle_signals[sid].status \notin {"failed", "pending"} THEN 400
    ELSE 0

\* lines 192-210: the checks; the row is loaded into the session
RetryOracleSignal(a, sid) ==
    /\ api[a].pc = "idle"
    /\ RetryCode(sid) = 0 => RoomForJob
    /\ api' = IF RetryCode(sid) # 0
              THEN Respond(a, "retry_oracle_signal", sid, 0, RetryCode(sid))
              ELSE [api EXCEPT ![a] = [pc |-> "reset", op |-> "retry_oracle_signal",
                                       arg |-> sid, job_id |-> 0, code |-> 0,
                                       loaded |-> oracle_signals[sid]]]
    /\ UNCHANGED <<jobs, nextJobId, scraping_queue, analysis_queue, oracle_queue, sw, aw,
                   ow, raw_events, datasets, analysis_results, oracle_signals, mon, ledger,
                   settings, delivered, requeues,
                   fetch, call>>

\* A reset that assigns status only and leaves the transaction columns.
RetryResetKeepsHash(a) ==
    /\ api[a].pc = "reset"
    /\ LET sid == api[a].arg
           loaded == api[a].loaded
           assigned == [loaded EXCEPT !.status = "pending"]
       IN oracle_signals' =
            [oracle_signals EXCEPT ![sid] =
                [Flush(@, loaded, assigned) EXCEPT !.attempt = @ + 1]]
    /\ api' = [api EXCEPT ![a] = [pc |-> "insert_job", op |-> "retry_oracle_signal",
                                  arg |-> api[a].arg, job_id |-> 0, code |-> 0]]
    /\ UNCHANGED <<jobs, nextJobId, scraping_queue, analysis_queue, oracle_queue, sw, aw,
                   ow, raw_events, datasets, analysis_results, mon, ledger, settings,
                   delivered, requeues,
                   fetch, call>>

\* lines 213-218
RetryReset(a) ==
    /\ api[a].pc = "reset"
    /\ LET sid == api[a].arg
           loaded == api[a].loaded
           assigned == [loaded EXCEPT !.status = "pending", !.tx_hash = 0,
                                      !.tx_status = NULL, !.sent_at = 0]
       IN oracle_signals' =
            [oracle_signals EXCEPT ![sid] =
                [Flush(@, loaded, assigned) EXCEPT !.attempt = @ + 1]]
    /\ api' = [api EXCEPT ![a] = [pc |-> "insert_job", op |-> "retry_oracle_signal",
                                  arg |-> api[a].arg, job_id |-> 0, code |-> 0]]
    /\ UNCHANGED <<jobs, nextJobId, scraping_queue, analysis_queue, oracle_queue, sw, aw,
                   ow, raw_events, datasets, analysis_results, mon, ledger, settings,
                   delivered, requeues,
                   fetch, call>>

\* ------------------------------------------ worker: process_oracle_job
OracleDequeue(w) ==
    /\ ow[w].pc = "idle"
    /\ oracle_queue # <<>>
    /\ LET t == Head(oracle_queue) IN
         /\ ow' = [ow EXCEPT ![w] = [pc |-> "start", job_id |-> t.job_id,
                                     analysis_result_id |-> t.arg]]
         /\ delivered' = delivered \cup {[queue |-> "oracle", task |-> t]}
    /\ oracle_queue' = Tail(oracle_queue)
    /\ UNCHANGED <<jobs, nextJobId, scraping_queue, analysis_queue, sw, aw, raw_events,
                   datasets, analysis_results, oracle_signals, api, mon, ledger, settings,
                   requeues,
                   fetch, call>>

\* lines 230-236
OracleStart(w) ==
    /\ ow[w].pc = "start"
    /\ IF ~JobExists(ow[w].job_id)
       THEN /\ ow' = [ow EXCEPT ![w] = IdleOracle]
            /\ UNCHANGED jobs
       ELSE /\ jobs' = [jobs EXCEPT ![ow[w].job_id] = MarkRunning(@)]
            /\ ow' = [ow EXCEPT ![w].pc = "finish"]
    /\ UNCHANGED <<nextJobId, scraping_queue, analysis_queue, oracle_queue, sw, aw,
                   raw_events, datasets, analysis_results, oracle_signals, api, mon,
                   ledger, settings, delivered, requeues,
                   fetch, call>>

\* lines 241-263: the analysis is looked up; nothing is sent (line 250 is a
\* TODO) and the Job is completed with signal_sent = ORACLE_ENABLED
OracleFinish(w) ==
    /\ ow[w].pc = "finish"
    /\ JobExists(ow[w].job_id)
    /\ jobs' = [jobs EXCEPT ![ow[w].job_id] =
                   IF ow[w].analysis_result_id \in DOMAIN analysis_results
                   THEN MarkCompleted(@, <<IF settings.ORACLE_ENABLED THEN 1 ELSE 0>>)
                   ELSE MarkFailed(@, "Analysis result not found")]
    /\ ow' = [ow EXCEPT ![w] = IdleOracle]
    /\ UNCHANGED <<nextJobId, scraping_queue, analysis_queue, oracle_queue, sw, aw,
                   raw_events, datasets, analysis_results, oracle_signals, api, mon,
                   ledger, settings, delivered, requeues,
                   fetch, call>>

\* --------------------------------- OracleService.monitor_and_send
\* oracle_service.py lines 203-206: the pass reads the pending signals of
\* severity high or critical; a pass that finds none sleeps and starts over
PendingSignals ==
    {s \in SignalIds : /\ oracle_signals[s].status = "pending"
                       /\ oracle_signals[s].severity \in {"high", "critical"}}

RECURSIVE SetToSeq(_)
SetToSeq(S) ==
    IF S = {} THEN <<>>
    ELSE LET x == CHOOSE y \in S : \A z \in S : y <= z
         IN <<x>> \o SetToSeq(S \ {x})

MonQuery(m) ==
    /\ mon[m].pc = "idle"
    /\ PendingSignals # {}
    /\ LET pending == SetToSeq(PendingSignals) IN
         mon' = [mon EXCEPT ![m] = [IdleMonitor EXCEPT !.pc = "build", !.pending = pending,
                                    !.k = 1, !.loaded = <<oracle_signals[pending[1]]>>]]
    /\ UNCHANGED <<jobs, nextJobId, scraping_queue, analysis_queue, oracle_queue, sw, aw,
                   ow, raw_events, datasets, analysis_results, oracle_signals, api, ledger,
                   settings, delivered, requeues,
                   fetch, call>>

Current(m) == mon[m].pending[mon[m].k]

\* The row as the session holds it when lines 210-222 read it: the row the
\* query loaded, or, after a commit of this pass has expired it, the row as
\* it is reloaded now.
Loaded(m) == IF mon[m].committed THEN oracle_signals[Current(m)] ELSE mon[m].loaded[1]

\* lines 224-232: status, tx_hash, tx_status and sent_at are assigned from
\* send_signal's result and committed; the loop goes on to the next signal,
\* and after the last one the pass ends (lines 234-239)
\* A commit that marks the row sent and stores no transaction hash.
MonCommitRowNoHash(m, loaded, tx_hash) ==
    LET assigned == IF tx_hash # 0
                    THEN [loaded EXCEPT !.status = "sent",
                                        !.tx_status = "confirmed", !.sent_at = 1]
                    ELSE [loaded EXCEPT !.status = "failed"]
    IN [oracle_signals EXCEPT ![Current(m)] = Flush(@, loaded, assigned)]

\* A commit that records a relay only when it succeeded.
MonCommitRowSuccessOnly(m, loaded, tx_hash) ==
    LET assigned == IF tx_hash # 0
                    THEN [loaded EXCEPT !.status = "sent", !.tx_hash = tx_hash,
                                        !.tx_status = "confirmed", !.sent_at = 1]
                    ELSE loaded
    IN [oracle_signals EXCEPT ![Current(m)] = Flush(@, loaded, assigned)]

MonCommitRow(m, loaded, tx_hash) ==
    LET assigned == IF tx_hash # 0
                    THEN [loaded EXCEPT !.status = "sent", !.tx_hash = tx_hash,
                                        !.tx_status = "confirmed", !.sent_at = 1]
                    ELSE [loaded EXCEPT !.status = "failed"]
    IN [oracle_signals EXCEPT ![Current(m)] = Flush(@, loaded, assigned)]

MonAdvance(m) ==
    IF mon[m].k < Len(mon[m].pending)
    THEN [mon EXCEPT ![m] = [IdleMonitor EXCEPT !.pc = "build", !.pending = mon[m].pending,
                             !.k = mon[m].k + 1, !.committed = TRUE]]
    ELSE [mon EXCEPT ![m] = IdleMonitor]

\* lines 82-84: without w3 or account send_signal returns None at once
MonSendDisabled(m) ==
    /\ mon[m].pc = "build"
    /\ ~settings.web3
    /\ oracle_signals' = MonCommitRow(m, Loaded(m), 0)
    /\ mon' = MonAdvance(m)
    /\ UNCHANGED <<jobs, nextJobId, scraping_queue, analysis_queue, oracle_queue, sw, aw,
                   ow, raw_events, datasets, analysis_results, api, ledger, settings,
                   delivered, requeues,
                   fetch, call>>

\* lines 88-91 and 169: the transaction is built with the account's
\* transaction count as its nonce
MonBuild(m) ==
    /\ mon[m].pc = "build"
    /\ settings.web3
    /\ mon' = [mon EXCEPT ![m].pc = "submit", ![m].nonce = Len(ledger),
                          ![m].loaded = <<Loaded(m)>>, ![m].committed = FALSE]
    /\ UNCHANGED <<jobs, nextJobId, scraping_queue, analysis_queue, oracle_queue, sw, aw,
                   ow, raw_events, datasets, analysis_results, oracle_signals, api, ledger,
                   settings, delivered, requeues,
                   fetch, call>>

\* lines 88-94 raising: lines 112-114 return None
MonBuildFails(m) ==
    /\ mon[m].pc = "build"
    /\ settings.web3
    /\ oracle_signals' = MonCommitRow(m, Loaded(m), 0)
    /\ mon' = MonAdvance(m)
    /\ UNCHANGED <<jobs, nextJobId, scraping_queue, analysis_queue, oracle_queue, sw, aw,
                   ow, raw_events, datasets, analysis_results, api, ledger, settings,
                   delivered, requeues,
                   fetch, call>>

\* line 97: send_raw_transaction; the node takes a transaction whose nonce
\* is the account's next one
MonSubmit(m) ==
    /\ mon[m].pc = "submit"
    /\ mon[m].nonce = Len(ledger)
    /\ Len(ledger) < MaxTx
    /\ ledger' = Append(ledger, [signal |-> Current(m), nonce |-> mon[m].nonce,
                                 attempt |-> oracle_signals[Current(m)].attempt,
                                 receipt |-> "none"])
    /\ mon' = [mon EXCEPT ![m].pc = "receipt", ![m].tx_hash = Len(ledger) + 1]
    /\ UNCHANGED <<jobs, nextJobId, scraping_queue, analysis_queue, oracle_queue, sw, aw,
                   ow, raw_events, datasets, analysis_results, oracle_signals, api,
                   settings, delivered, requeues,
                   fetch, call>>

\* line 97 raising (the node refuses the nonce, the network fails): None
MonSubmitFails(m) ==
    /\ mon[m].pc = "submit"
    /\ oracle_signals' = MonCommitRow(m, mon[m].loaded[1], 0)
    /\ mon' = MonAdvance(m)
    /\ UNCHANGED <<jobs, nextJobId, scraping_queue, analysis_queue, oracle_queue, sw, aw,
                   ow, raw_events, datasets, analysis_results, api, ledger, settings,
                   delivered, requeues,
                   fetch, call>>

\* lines 103-107: a receipt with status 1; send_signal returns the hash
MonReceipt(m) ==
    /\ mon[m].pc = "receipt"
    /\ ledger' = [ledger EXCEPT ![mon[m].tx_hash].receipt = "success"]
    /\ oracle_signals' = MonCommitRow(m, mon[m].loaded[1], mon[m].tx_hash)
    /\ mon' = MonAdvance(m)
    /\ UNCHANGED <<jobs, nextJobId, scraping_queue, analysis_queue, oracle_queue, sw, aw,
                   ow, raw_events, datasets, analysis_results, api, settings,
                   delivered, requeues,
                   fetch, call>>

\* lines 103-114: a receipt with another status, or the 120 s wait timing
\* out; send_signal returns None
MonReceiptFails(m) ==
    /\ mon[m].pc = "receipt"
    /\ \E r \in {"failed", "timeout"} :
         ledger' = [ledger EXCEPT ![mon[m].tx_hash].receipt = r]
    /\ oracle_signals' = MonCommitRow(m, mon[m].loaded[1], 0)
    /\ mon' = MonAdvance(m)
    /\ UNCHANGED <<jobs, nextJobId, scraping_queue, analysis_queue, oracle_queue, sw, aw,
                   ow, raw_events, datasets, analysis_results, api, settings,
                   delivered, requeues,
                   fetch, call>>

OracleApi(A) ==
    \/ \E a \in A, aid \in AnalysisIds : CreateOracleSignal(a, aid)
    \/ \E a \in A : CreateInsertSignal(a)
    \/ \E a \in A : OracleInsertJob(a)
    \/ \E a \in A : EnqueueOracle(a)
    \/ \E a \in A, sid \in 1..MaxSignals : RetryOracleSignal(a, sid)
    \/ \E a \in A : RetryReset(a)

OracleWork(W) ==
    \/ \E w \in W : OracleDequeue(w)
    \/ \E w \in W : OracleStart(w)
    \/ \E w \in W : OracleFinish(w)

\* lines 210-212 raising (the database fails the query of the loop body):
\* the except of lines 236-237 ends the pass and the loop sleeps
MonLoopRaises(m) ==
    /\ mon[m].pc = "build"
    /\ mon' = [mon EXCEPT ![m] = IdleMonitor]
    /\ UNCHANGED <<jobs, nextJobId, scraping_queue, analysis_queue, oracle_queue, sw, aw,
                   ow, raw_events, datasets, analysis_results, oracle_signals, api, ledger,
                   settings, delivered, requeues,
                   fetch, call>>

MonitorLoop(M) ==
    \/ \E m \in M : MonQuery(m)
    \/ \E m \in M : MonLoopRaises(m)
    \/ \E m \in M : MonSendDisabled(m)
    \/ \E m \in M : MonBuild(m)
    \/ \E m \in M : MonBuildFails(m)
    \/ \E m \in M : MonSubmit(m)
    \/ \E m \in M : MonSubmitFails(m)
    \/ \E m \in M : MonReceipt(m)
    \/ \E m \in M : MonReceiptFails(m)

\* ------------------------------------------------- API: delete_job
\* A check that rejects only a missing Job.
DeleteCodeNoStatus(job_id) ==
    IF ~JobExists(job_id) THEN 404
    ELSE 0

\* backend_routes_jobs.py lines 71-84: the two rejections
DeleteCode(job_id) ==
    IF ~JobExists(job_id) THEN 404
    ELSE IF jobs[job_id].status \in {"running", "pending"} THEN 400
    ELSE 0

\* lines 71-84: the Job is read and checked
DeleteJob(a, job_id) ==
    /\ api[a].pc = "idle"
    /\ api' = IF DeleteCode(job_id) # 0
              THEN Respond(a, "delete_job", job_id, job_id, DeleteCode(job_id))
              ELSE [api EXCEPT ![a] = [pc |-> "delete", op |-> "delete_job",
                                       arg |-> job_id, job_id |-> job_id, code |-> 0]]
    /\ UNCHANGED <<jobs, nextJobId, scraping_queue, analysis_queue, oracle_queue, sw, aw,
                   ow, raw_events, datasets, analysis_results, oracle_signals, mon, ledger,
                   settings, delivered, requeues,
                   fetch, call>>

\* lines 86-90: db.delete(job); db.commit(), answered 204; when the row is
\* gone by then the flush raises and the request is answered 500
DeleteCommit(a) ==
    /\ api[a].pc = "delete"
    /\ IF JobExists(api[a].job_id)
       THEN /\ jobs' = [jobs EXCEPT ![api[a].job_id] = NoRow]
            /\ api' = [api EXCEPT ![a] = IdleApi]
       ELSE /\ api' = Respond(a, "delete_job", api[a].job_id, api[a].job_id, 500)
            /\ UNCHANGED jobs
    /\ UNCHANGED <<nextJobId, scraping_queue, analysis_queue, oracle_queue, sw, aw, ow,
                   raw_events, datasets, analysis_results, oracle_signals, mon, ledger,
                   settings, delivered, requeues,
                   fetch, call>>

\* -------------------------------------------- API: cleanup_old_jobs
\* A DELETE statement without the status filter.
CleanupTargetsAnyStatus(old) == {j \in old : JobExists(j)}

\* lines 139-143: the rows the DELETE statement matches, given the Jobs
\* whose created_at is before the cutoff
CleanupTargets(old) ==
    {j \in old : JobExists(j) /\ jobs[j].status \in {"completed", "failed"}}

\* lines 138-152: one DELETE statement and its commit
CleanupOldJobs(a, old) ==
    /\ api[a].pc = "idle"
    /\ jobs' = [j \in JobIds |-> IF j \in CleanupTargets(old) THEN NoRow ELSE jobs[j]]
    /\ api' = [api EXCEPT ![a] = IdleApi]
    /\ UNCHANGED <<nextJobId, scraping_queue, analysis_queue, oracle_queue, sw, aw, ow,
                   raw_events, datasets, analysis_results, oracle_signals, mon, ledger,
                   settings, delivered, requeues,
                   fetch, call>>

JobsApi(A) ==
    \/ \E a \in A, j \in JobIds : DeleteJob(a, j)
    \/ \E a \in A : DeleteCommit(a)
    \/ \E a \in A, old \in SUBSET JobIds : CleanupOldJobs(a, old)

\* ------------------------------------------------------ redelivery
\* A task that a worker has taken is put on its queue again (an operator's
\* requeue of the RQ job): the same job id reaches a worker a second time.
Requeue ==
    /\ requeues < MaxRequeue
    /\ \E d \in delivered :
         /\ scraping_queue' = IF d.queue = "scraping" THEN Append(scraping_queue, d.task)
                              ELSE scraping_queue
         /\ analysis_queue' = IF d.queue = "analysis" THEN Append(analysis_queue, d.task)
                              ELSE analysis_queue
         /\ oracle_queue' = IF d.queue = "oracle" THEN Append(oracle_queue, d.task)
                            ELSE oracle_queue
    /\ requeues' = requeues + 1
    /\ UNCHANGED <<jobs, nextJobId, sw, aw, ow, raw_events, datasets, analysis_results,
                   oracle_signals, api, mon, ledger, settings, delivered,
                   fetch, call>>

\* ------------------------------------------------- specifications
\* The whole system, one process of each kind.
Next ==
    \/ ScrapeApi({"a1"}) \/ ScrapeWork({"sw1"})
    \/ AnalysisApi({"a1"}) \/ AnalysisWork({"aw1"})
    \/ OracleApi({"a1"}) \/ OracleWork({"ow1"})
    \/ MonitorLoop({"m1"})

Spec == Init /\ [][Next]_vars

\* The extraction pipeline alone: concurrent requests, concurrent workers.
InitScrape ==
    /\ InitTables
    /\ analysis_results = <<>>
    /\ settings = [ORACLE_ENABLED |-> FALSE, web3 |-> FALSE]

ScrapeNext == ScrapeApi(ApiProcs) \/ ScrapeWork(ScrapeWorkers)

SpecScrape == InitScrape /\ [][ScrapeNext]_vars

\* The extraction pipeline with the web collaborator's requests spelled out:
\* one worker, whose _extract_web_data call is the variable fetch.
FetchNext == ScrapeApi({"a1"}) \/ FetchWork({"sw1"})

SpecFetch == InitScrape /\ [][FetchNext]_vars

\* The extraction pipeline with tasks delivered more than once.
RedeliverNext == ScrapeNext \/ Requeue

SpecRedeliver == InitScrape /\ [][RedeliverNext]_vars

\* The signal pipeline alone, over analysis results of any severity, such
\* as analysis jobs have left them.
InitOracle ==
    /\ InitTables
    /\ analysis_results \in [AnalysisIds -> Severities]
    /\ settings \in Configs

\* The signal gate: concurrent requests and the relay worker.
GateNext == OracleApi(ApiProcs) \/ OracleWork({"ow1"})

SpecGate == InitOracle /\ [][GateNext]_vars

\* Extraction with the Job maintenance requests.
JobsNext == ScrapeNext \/ JobsApi(ApiProcs)

SpecJobs == InitScrape /\ [][JobsNext]_vars

\* The process running process_scraping_job is killed after the commit of
\* line 79 and before the function ends (lines 81-129): the database rolls
\* back what the session had not committed, and the RQ worker that replaces
\* the process starts with nothing in hand.
WorkerDies(w) ==
    /\ sw[w].pc \notin {"idle", "start"}
    /\ sw' = [sw EXCEPT ![w] = IdleScrape]
    /\ UNCHANGED <<jobs, nextJobId, scraping_queue, analysis_queue, oracle_queue, aw, ow,
                   raw_events, datasets, analysis_results, oracle_signals, api, mon,
                   ledger, settings, delivered, requeues, fetch, call>>

\* Extraction and the Job maintenance requests, with workers that can die.
CrashNext == JobsNext \/ \E w \in ScrapeWorkers : WorkerDies(w)

SpecCrash == InitScrape /\ [][CrashNext]_vars

\* Extraction and analysis with one live worker on each queue: a worker
\* that has a task on its queue or in hand goes on with it, and every call
\* it makes returns or raises.
LiveNext ==
    \/ ScrapeApi({"a1"}) \/ ScrapeWork({"sw1"})
    \/ AnalysisApi({"a1"}) \/ AnalysisWork({"aw1"})

SpecLive ==
    /\ InitScrape
    /\ [][LiveNext]_vars
    /\ WF_vars(ScrapeWork({"sw1"}))
    /\ WF_vars(AnalysisWork({"aw1"}))

\* create_oracle_signal, backend_routes_oracle.py lines 160-174 raising: the
\* commit of the Job or the enqueue fails, or the process is stopped between
\* the commits; what was committed stays, and the request is answered 500.
ApiFault(a) ==
    /\ api[a].pc \in {"insert_job", "enqueue"}
    /\ api[a].op = "create_oracle_signal"
    /\ api' = Respond(a, api[a].op, api[a].arg, 0, 500)
    /\ UNCHANGED <<jobs, nextJobId, scraping_queue, analysis_queue, oracle_queue, sw, aw,
                   ow, raw_events, datasets, analysis_results, oracle_signals, mon, ledger,
                   settings, delivered, requeues, fetch, call>>

\* The signal gate with requests that can fail between their commits.
FaultNext == OracleApi({"a1"}) \/ OracleWork({"ow1"}) \/ ApiFault("a1")

SpecFault == InitOracle /\ [][FaultNext]_vars

\* ---------------------------------- API: trigger_all_extractions
\* backend_routes_sources.py lines 173-192: one Job(type='scrape',
\* status='pending') per enabled source, all in one commit
TriggerAllExtractions(a) ==
    LET sources == SetToSeq(SourceIds)
        n == Len(sources)
    IN /\ api[a].pc = "idle"
       /\ nextJobId + JobInserts + n - 1 <= MaxJobs
       /\ jobs' = [j \in JobIds |->
                     IF j \in nextJobId..(nextJobId + n - 1)
                     THEN NewJob("scrape", <<sources[j - nextJobId + 1]>>)
                     ELSE jobs[j]]
       /\ nextJobId' = nextJobId + n
       /\ api' = [api EXCEPT ![a] = [pc |-> "enqueue_all",
                                     op |-> "trigger_all_extractions",
                                     arg |-> nextJobId + n - 1, job_id |-> nextJobId,
                                     code |-> 0]]
       /\ UNCHANGED <<scraping_queue, analysis_queue, oracle_queue, sw, aw, ow,
                      raw_events, datasets, analysis_results, oracle_signals, mon,
                      ledger, settings, delivered, requeues, fetch, call>>

\* lines 195-200: one pass of the enqueue loop; after the last, the response
EnqueueAll(a) ==
    /\ api[a].pc = "enqueue_all"
    /\ JobExists(api[a].job_id)
    /\ scraping_queue' = Append(scraping_queue,
            Task(api[a].job_id, jobs[api[a].job_id].input_data[1]))
    /\ api' = IF api[a].job_id = api[a].arg
              THEN Respond(a, api[a].op, api[a].arg, api[a].job_id, 200)
              ELSE [api EXCEPT ![a].job_id = @ + 1]
    /\ UNCHANGED <<jobs, nextJobId, analysis_queue, oracle_queue, sw, aw, ow, raw_events,
                   datasets, analysis_results, oracle_signals, mon, ledger, settings,
                   delivered, requeues, fetch, call>>

\* Every request that creates a Job, with one process of each kind.
DispatchNext == Next \/ TriggerAllExtractions("a1") \/ EnqueueAll("a1")

SpecDispatch == Init /\ [][DispatchNext]_vars

\* ------------------------------------------ content hashes and wire payload
\* A payload is a dict: its items <<key, value>> in insertion order.
ItemValues == {"v1", "v2"}

HasKey(data, k) == \E i \in 1..Len(data) : data[i][1] = k

Get(data, k) == data[CHOOSE i \in 1..Len(data) : data[i][1] = k][2]

\* The dicts with exactly the keys of the sequence keys, in any insertion order
Dicts(keys) ==
    {d \in [1..Len(keys) -> {<<keys[i], v>> : i \in 1..Len(keys), v \in ItemValues}] :
        \A k \in 1..Len(keys) : HasKey(d, keys[k])}

\* The items of data whose key is in order, in that order: the string that is
\* hashed.  sha256 is taken as injective, so the digest is this string.
ItemsInOrder(data, order) ==
    LET present == SelectSeq(order, LAMBDA k : HasKey(data, k))
    IN [i \in 1..Len(present) |-> <<present[i], Get(data, present[i])>>]

\* fetch_web_page lines 52-54: what _auto_extract returned, then url and
\* fetched_at; the keys as sorted() orders them
WebKeys == <<"fetched_at", "title", "url">>

\* ScrapingService._generate_hash: sha256(str(sorted(data.items())))
ScrapingGenerateHash(data) == ItemsInOrder(data, WebKeys)

\* the items of a simulated post that matter here
SocialKeys == <<"id", "likes", "platform">>

\* SocialService._generate_hash line 230
hash_fields == <<"id", "platform">>

\* SocialService._generate_hash: sha256(str({k: data.get(k) for k in
\* hash_fields if k in data}))
SocialGenerateHash(data) == ItemsInOrder(data, hash_fields)

\* A wire ordinal that gives critical the ordinal of high.
SeverityLevelFlat(severity) ==
    CASE severity = "low" -> 1
      [] severity = "medium" -> 2
      [] severity = "high" -> 3
      [] severity = "critical" -> 3
      [] OTHER -> 1

\* _prepare_signal lines 125-133: severity_map.get(severity, 1)
SeverityLevel(severity) ==
    CASE severity = "low" -> 1
      [] severity = "medium" -> 2
      [] severity = "high" -> 3
      [] severity = "critical" -> 4
      [] OTHER -> 1

\* The calls under study: two payloads hashed by the same function, or two
\* severities prepared for the wire.
Calls ==
    [fn : {"ScrapingService._generate_hash"}, a : Dicts(WebKeys), b : Dicts(WebKeys),
     ra : {NULL}, rb : {NULL}, done : {FALSE}]
    \cup
    [fn : {"SocialService._generate_hash"}, a : Dicts(SocialKeys), b : Dicts(SocialKeys),
     ra : {NULL}, rb : {NULL}, done : {FALSE}]
    \cup
    [fn : {"_prepare_signal"}, a : Severities \cup {"info"}, b : Severities \cup {"info"},
     ra : {NULL}, rb : {NULL}, done : {FALSE}]

CallFrame == <<jobs, nextJobId, scraping_queue, analysis_queue, oracle_queue, sw, aw,
               ow, raw_events, datasets, analysis_results, oracle_signals, api, mon,
               ledger, settings, delivered, requeues, fetch>>

WebHashCall ==
    /\ call.fn = "ScrapingService._generate_hash"
    /\ ~call.done
    /\ call' = [call EXCEPT !.ra = ScrapingGenerateHash(call.a),
                            !.rb = ScrapingGenerateHash(call.b), !.done = TRUE]
    /\ UNCHANGED CallFrame

SocialHashCall ==
    /\ call.fn = "SocialService._generate_hash"
    /\ ~call.done
    /\ call' = [call EXCEPT !.ra = SocialGenerateHash(call.a),
                            !.rb = SocialGenerateHash(call.b), !.done = TRUE]
    /\ UNCHANGED CallFrame

PrepareSignalCall ==
    /\ call.fn = "_prepare_signal"
    /\ ~call.done
    /\ call' = [call EXCEPT !.ra = SeverityLevel(call.a),
                            !.rb = SeverityLevel(call.b), !.done = TRUE]
    /\ UNCHANGED CallFrame

\* One call of a hash function or of _prepare_signal on drawn arguments.
InitCalls ==
    /\ InitRows
    /\ analysis_results = <<>>
    /\ settings = [ORACLE_ENABLED |-> FALSE, web3 |-> FALSE]
    /\ call \in Calls

CallsNext == WebHashCall \/ SocialHashCall \/ PrepareSignalCall

SpecCalls == InitCalls /\ [][CallsNext]_vars

\* The relay: requests, relay workers and concurrent monitor loops.
RelayNext == OracleApi({"a1"}) \/ OracleWork(OracleWorkers) \/ MonitorLoop(Monitors)

SpecRelay == InitOracle /\ [][RelayNext]_vars

\* The signal pipeline with one process of each kind.  A request that has
\* passed its checks runs to its response, and a worker that has a task on
\* its queue or in hand goes on with it.
OracleNext == OracleApi({"a1"}) \/ OracleWork({"ow1"}) \/ MonitorLoop({"m1"})

ApiGoesOn ==
    \E a \in ApiProcs : \/ CreateInsertSignal(a) \/ OracleInsertJob(a)
                        \/ EnqueueOracle(a) \/ RetryReset(a)

SpecOracle ==
    /\ InitOracle
    /\ [][OracleNext]_vars
    /\ WF_vars(ApiGoesOn)
    /\ WF_vars(OracleWork({"ow1"}))

\* The monitor loop left to run: the loop never stops (line 195, while True),
\* every statement of a pass ends (send_signal returns within the 120 s wait
\* for the receipt), and the database does not fail every pass for ever.
\* Nothing is assumed of the requests or of the relay worker.
MonCommits(m) ==
    \/ MonSendDisabled(m) \/ MonBuildFails(m) \/ MonSubmitFails(m)
    \/ MonReceipt(m) \/ MonReceiptFails(m)

MonPass(m) == MonQuery(m) \/ MonBuild(m) \/ MonSubmit(m) \/ MonCommits(m)

SpecMonitor ==
    /\ InitOracle
    /\ [][OracleNext]_vars
    /\ WF_vars(MonPass("m1"))
    /\ SF_vars(MonCommits("m1"))

\* ===================================================================
\* Properties of the job lifecycle
\* ===================================================================

\* C1: the statuses a Job goes through are a subsequence of
\* (pending, running, completed or failed): a row is created pending, a step
\* changes a status only from pending to running or from running to
\* completed or failed, and started_at is written only on a pending row.
StatusSteps == {<<"pending", "running">>, <<"running", "completed">>,
                <<"running", "failed">>}

C1_StatusStep ==
    \A j \in JobIds :
       /\ (jobs[j] = NoRow /\ jobs'[j] # NoRow) => jobs'[j].status = "pending"
       /\ (jobs[j] # NoRow /\ jobs'[j] # NoRow) =>
            /\ jobs'[j].status # jobs[j].status =>
                 <<jobs[j].status, jobs'[j].status>> \in StatusSteps
            /\ jobs'[j].started_at # jobs[j].started_at =>
                 jobs[j].status = "pending"

Holders(j) == {w \in ScrapeWorkers : sw[w].job_id = j /\ sw[w].pc \notin {"idle", "start"}}

C2_ExclusiveClaim ==
    \A j \in JobIds : Cardinality(Holders(j)) <= 1

\* ===================================================================
\* Properties of the stored records
\* ===================================================================

\* C3: content_hash is unique across the stored Records, also when two
\* extraction workers store the same hash concurrently.
C3_UniqueHash ==
    \A h \in Hashes : raw_events[h] <= 1

\* C4: of the payloads that carry one hash, in one batch or in the batches
\* of different Jobs, exactly one is inserted and the others are counted as
\* duplicates by Jobs that complete: once the workers are idle, the
\* new_events of the completed Jobs add up to the number of distinct
\* hashes stored, their duplicates_filtered to the rest, and no Job that
\* got a batch has failed.
CompletedScrapes ==
    {j \in JobIds : JobExists(j) /\ jobs[j].type = "scrape" /\ jobs[j].status = "completed"}

RECURSIVE SumOutput(_, _)
SumOutput(S, i) ==
    IF S = {} THEN 0
    ELSE LET j == CHOOSE x \in S : TRUE
         IN jobs[j].output_data[i] + SumOutput(S \ {j}, i)

StoredHashes == {h \in Hashes : raw_events[h] > 0}

C4_OneInsertedOthersCounted ==
    (\A w \in ScrapeWorkers : sw[w].pc = "idle") =>
       /\ SumOutput(CompletedScrapes, 2) = Cardinality(StoredHashes)
       /\ SumOutput(CompletedScrapes, 3) =
             SumOutput(CompletedScrapes, 1) - Cardinality(StoredHashes)

\* ===================================================================
\* Properties of signal creation
\* ===================================================================

\* C5: requests that create a signal for one AnalysisResult concurrently
\* leave at most one Signal for it.
C5_OneSignalPerResult ==
    \A aid \in AnalysisIds : Cardinality(SignalsFor(aid)) <= 1

\* C6: a create request made when a Signal of the AnalysisResult is already
\* stored is rejected with 400; it creates no Signal, creates and enqueues
\* no relay Job, and leaves the stored Signal as it is.
CreateStarts(a, aid) ==
    /\ api[a].pc = "idle"
    /\ api'[a] # api[a]
    /\ api'[a].op = "create_oracle_signal"
    /\ api'[a].pc \in {"idle", "insert_signal"}
    /\ api'[a].arg = aid

C6_SecondCreateStep ==
    \A a \in ApiProcs, aid \in AnalysisIds :
       (CreateStarts(a, aid) /\ settings.ORACLE_ENABLED /\ SignalsFor(aid) # {}) =>
          /\ api'[a].pc = "idle"
          /\ api'[a].code = 400
          /\ UNCHANGED <<oracle_signals, jobs, nextJobId, oracle_queue>>

C6_SecondCreateRejected == [][C6_SecondCreateStep]_vars

\* A first request has stored a Signal and its relay Job, and a second
\* request for the same AnalysisResult has been answered 400.
C6_Witness ==
    \E a \in ApiProcs :
       /\ api[a].pc = "idle" /\ api[a].op = "create_oracle_signal" /\ api[a].code = 400
       /\ api[a].arg \in AnalysisIds
       /\ analysis_results[api[a].arg] \in {"high", "critical"}
       /\ Cardinality(SignalsFor(api[a].arg)) = 1
       /\ \E j \in JobIds : StatusOf(j) # "none" /\ jobs[j].type = "oracle_signal"

\* C7: a request for an AnalysisResult of severity low or medium creates
\* no Signal and no Job: every Signal row has severity high or critical, its
\* AnalysisResult too, and so has the AnalysisResult of every relay Job.
C7_SeverityGate ==
    /\ \A s \in SignalIds :
          /\ oracle_signals[s].severity \in {"high", "critical"}
          /\ analysis_results[oracle_signals[s].analysis_result_id] \in {"high", "critical"}
    /\ \A j \in JobIds :
          (JobExists(j) /\ jobs[j].type = "oracle_signal") =>
             analysis_results[jobs[j].input_data[2]] \in {"high", "critical"}

\* Requests for a low or medium AnalysisResult have been answered 400 while
\* a Signal of a high or critical one is stored.
C7_Witness ==
    /\ \E a \in ApiProcs :
          /\ api[a].op = "create_oracle_signal" /\ api[a].code = 400
          /\ api[a].arg \in AnalysisIds
          /\ analysis_results[api[a].arg] \in {"low", "medium"}
          /\ SignalsFor(api[a].arg) = {}
    /\ SignalIds # {}

\* ===================================================================
\* Properties of the relay
\* ===================================================================

\* C8: when relay processes race on one pending Signal, exactly one of
\* them submits it: the chain holds at most one transaction for a Signal
\* and one turn of it.
Submissions(s, n) ==
    {i \in DOMAIN ledger : ledger[i].signal = s /\ ledger[i].attempt = n}

C8_OneSubmission ==
    \A s \in SignalIds, n \in 1..(MaxJobs + 1) : Cardinality(Submissions(s, n)) <= 1

\* C9: when the relay of a Signal succeeds, the Signal is sent with the
\* transaction's hash and tx_status confirmed, and the relay Jobs of the
\* Signal become completed.
RelayJobs(s) ==
    {j \in JobIds : JobExists(j) /\ jobs[j].type = "oracle_signal"
                                 /\ jobs[j].input_data[1] = s}

Sent(s) == s \in SignalIds /\ oracle_signals[s].status = "sent"

C9_SignalUpdated ==
    \A i \in DOMAIN ledger :
       ledger[i].receipt = "success" =>
          /\ oracle_signals[ledger[i].signal].status = "sent"
          /\ oracle_signals[ledger[i].signal].tx_hash = i
          /\ oracle_signals[ledger[i].signal].tx_status = "confirmed"
          /\ oracle_signals[ledger[i].signal].sent_at # 0

C9_RelaySuccess ==
    /\ []C9_SignalUpdated
    /\ \A s \in 1..MaxSignals :
          Sent(s) ~> (/\ RelayJobs(s) # {}
                      /\ \A j \in RelayJobs(s) : jobs[j].status = "completed")

\* A relay has succeeded and the Signal's relay Job is completed.
C9_Witness ==
    \E i \in DOMAIN ledger :
       /\ ledger[i].receipt = "success"
       /\ Sent(ledger[i].signal)
       /\ \E j \in RelayJobs(ledger[i].signal) : jobs[j].status = "completed"

\* C10: when a step of the relay fails, the Signal becomes failed and its
\* relay Job becomes failed with the error recorded: once nothing is in
\* progress, a failed Signal has a failed relay Job that carries an
\* error_message.
Quiet ==
    /\ \A a \in ApiProcs : api[a].pc = "idle"
    /\ \A w \in OracleWorkers : ow[w].pc = "idle"
    /\ \A m \in Monitors : mon[m].pc = "idle"
    /\ oracle_queue = <<>>

C10_FailureRecorded ==
    \A s \in SignalIds :
       (Quiet /\ oracle_signals[s].status = "failed") =>
          \E j \in RelayJobs(s) : /\ jobs[j].status = "failed"
                                  /\ jobs[j].error_message # NULL

\* ===================================================================
\* Properties of retry
\* ===================================================================

\* The four columns a relay or a retry writes.
Columns(row) == <<row.status, row.tx_hash, row.tx_status, row.sent_at>>

\* Process a commits the reset of its retry request in this step.
ResetStep(a) ==
    /\ api[a].pc = "reset"
    /\ api'[a].pc = "insert_job"

\* Process a inserts the Job of its retry request in this step.
RetryJobStep(a) ==
    /\ api[a].op = "retry_oracle_signal"
    /\ api[a].pc = "insert_job"
    /\ api'[a].pc = "enqueue"

\* Process a enqueues the Job of its retry request in this step.
RetryEnqueueStep(a) ==
    /\ api[a].op = "retry_oracle_signal"
    /\ api[a].pc = "enqueue"
    /\ api'[a].pc = "idle"

\* C11: a retry of a failed or pending Signal that no other process has
\* written since the request read it leaves the Signal pending with tx_hash,
\* tx_status and sent_at cleared; the fresh oracle_signal Job is inserted
\* pending only after that reset, and enqueued only after it is inserted.
C11_RetryStep ==
    \A a \in ApiProcs :
       /\ (ResetStep(a) /\ oracle_signals[api[a].arg] = api[a].loaded) =>
             /\ api[a].loaded.status \in {"failed", "pending"}
             /\ Columns(oracle_signals'[api[a].arg]) = <<"pending", 0, NULL, 0>>
             /\ UNCHANGED <<jobs, oracle_queue>>
       /\ RetryJobStep(a) =>
             /\ oracle_signals[api[a].arg].attempt >= 2
             /\ jobs[nextJobId] = NoRow
             /\ jobs'[nextJobId] =
                   NewJob("oracle_signal",
                          <<api[a].arg, oracle_signals[api[a].arg].analysis_result_id>>)
             /\ UNCHANGED <<oracle_signals, oracle_queue>>
       /\ RetryEnqueueStep(a) =>
             /\ JobExists(api[a].job_id)
             /\ oracle_queue' = Append(oracle_queue,
                   Task(api[a].job_id, oracle_signals[api[a].arg].analysis_result_id))
             /\ UNCHANGED <<oracle_signals, jobs>>

RetryStarts(a, sid) ==
    /\ api[a].pc = "idle"
    /\ api'[a] # api[a]
    /\ api'[a].op = "retry_oracle_signal"
    /\ api'[a].pc \in {"idle", "reset"}
    /\ api'[a].arg = sid

\* C12: a retry never modifies a Signal in status sent: a request that
\* finds it sent is rejected, and the reset a request commits leaves status,
\* tx_hash, tx_status and sent_at of a sent Signal as they are, also when a
\* monitor pass has sent the Signal while the request was in progress.
C12_RetryStep ==
    \A a \in ApiProcs :
       /\ \A sid \in SignalIds :
             (RetryStarts(a, sid) /\ settings.ORACLE_ENABLED
                                  /\ oracle_signals[sid].status = "sent") =>
                /\ api'[a].pc = "idle" /\ api'[a].code = 400
                /\ UNCHANGED <<oracle_signals, jobs, oracle_queue>>
       /\ (ResetStep(a) /\ oracle_signals[api[a].arg].status = "sent") =>
             Columns(oracle_signals'[api[a].arg]) = Columns(oracle_signals[api[a].arg])

C12_SentUntouched == [][C12_RetryStep]_vars

\* C13: a Signal's tx_hash is non-null exactly when a submission of its
\* current turn reached the chain, whatever the receipt of that submission:
\* a stored tx_hash is a transaction submitted for this Signal, and once the
\* relay has recorded the outcome of a submission of the current turn
\* (success, failure status or timeout) the Signal carries a tx_hash.
Recorded(s) ==
    {i \in DOMAIN ledger : /\ ledger[i].signal = s
                           /\ ledger[i].attempt = oracle_signals[s].attempt
                           /\ ledger[i].receipt # "none"}

C13_HashIffSubmitted ==
    \A s \in SignalIds :
       /\ oracle_signals[s].tx_hash # 0 =>
             /\ oracle_signals[s].tx_hash \in DOMAIN ledger
             /\ ledger[oracle_signals[s].tx_hash].signal = s
       /\ Recorded(s) # {} => oracle_signals[s].tx_hash # 0

\* ===================================================================
\* Properties of the extraction counts
\* ===================================================================

RECURSIVE SumRows(_, _)
SumRows(table, S) ==
    IF S = {} THEN 0
    ELSE LET h == CHOOSE x \in S : TRUE IN table[h] + SumRows(table, S \ {h})

\* The payload at position i of w's batch carries a hash that is stored, or
\* that an earlier payload of the batch carried.
AlreadyStored(w, i) ==
    \/ raw_events[sw[w].extracted_data[i]] > 0
    \/ \E k \in 1..(i - 1) : sw[w].extracted_data[k] = sw[w].extracted_data[i]

\* C14: the output of a completed extraction Job has events_extracted =
\* new_events + duplicates_filtered; new_events is the number of Records the
\* Job inserted, and a payload is counted as a duplicate exactly when its
\* content_hash was already stored when the Job looked it up.
C14_CountStep ==
    \A w \in ScrapeWorkers :
       /\ (sw[w].pc = "store" /\ sw'[w].pc = "store" /\ sw'[w].idx = sw[w].idx + 1) =>
             sw'[w].new_events =
                sw[w].new_events + (IF AlreadyStored(w, sw[w].idx) THEN 0 ELSE 1)
       /\ (sw[w].pc = "store" /\ sw'[w].pc = "complete") =>
             SumRows(raw_events', Hashes) - SumRows(raw_events, Hashes) = sw[w].new_events
       /\ (sw[w].pc = "complete" /\ sw'[w].pc = "idle") =>
             LET out == jobs'[sw[w].job_id].output_data IN
                /\ jobs'[sw[w].job_id].status = "completed"
                /\ out[1] = Len(sw[w].extracted_data)
                /\ out[2] = sw[w].new_events
                /\ out[1] = out[2] + out[3]

C14_Counts == [][C14_CountStep]_vars

\* A Job has completed with one new Record and one duplicate after another
\* Job stored a Record.
C14_Witness ==
    \E j, k \in JobIds :
       /\ StatusOf(j) = "completed" /\ jobs[j].type = "scrape"
       /\ jobs[j].output_data = <<2, 1, 1>>
       /\ StatusOf(k) = "completed" /\ jobs[k].type = "scrape"
       /\ jobs[k].output_data = <<1, 1, 0>>
       /\ SumRows(raw_events, Hashes) = 2

\* ===================================================================
\* Properties of dispatch
\* ===================================================================

\* A worker has taken the task of Job j from the queue.
Taken(j) == \E w \in ScrapeWorkers : sw[w].job_id = j

\* C15: Jobs of one queue are started oldest-pending-first: no step moves
\* an extraction Job to running while an extraction Job created before it
\* is still pending and no worker has taken it.
C15_StartStep ==
    \A A, B \in JobIds :
       (/\ A < B
        /\ StatusOf(B) = "pending" /\ jobs'[B] # NoRow /\ jobs'[B].status = "running"
        /\ jobs[A].type = "scrape" /\ jobs[B].type = "scrape") =>
          ~(StatusOf(A) = "pending" /\ ~Taken(A))

C15_OldestFirst == [][C15_StartStep]_vars

\* ===================================================================
\* Properties of progress and timestamps
\* ===================================================================

\* C16: the committed progress of a Job is within [0.0, 1.0], does not
\* decrease while the Job is running, and is 1.0 only on a completed Job.
C16_ProgressRange ==
    \A j \in JobIds :
       JobExists(j) => /\ jobs[j].progress \in P000..P100
                       /\ jobs[j].progress = P100 => jobs[j].status = "completed"

C16_ProgressStep ==
    \A j \in JobIds :
       (StatusOf(j) = "running" /\ jobs'[j] # NoRow /\ jobs'[j].status = "running") =>
          jobs'[j].progress >= jobs[j].progress

C17_Stamps ==
    \A j \in JobIds :
       JobExists(j) =>
          /\ jobs[j].status = "pending" =>
                jobs[j].started_at = 0 /\ jobs[j].completed_at = 0
          /\ jobs[j].status = "running" =>
                jobs[j].started_at = 1 /\ jobs[j].completed_at = 0
          /\ jobs[j].status \in {"completed", "failed"} =>
                jobs[j].started_at = 1 /\ jobs[j].completed_at = 1

C17_StampStep ==
    \A j \in JobIds :
       (jobs[j] # NoRow /\ jobs'[j] # NoRow) =>
          /\ jobs'[j].started_at # jobs[j].started_at =>
                jobs[j].status = "pending" /\ jobs'[j].status = "running"
          /\ jobs'[j].completed_at # jobs[j].completed_at =>
                /\ jobs[j].status = "running"
                /\ jobs'[j].status \in {"completed", "failed"}
                /\ jobs[j].started_at = 1

DeleteStarts(a, j) ==
    /\ api[a].pc = "idle"
    /\ api'[a] # api[a]
    /\ api'[a].op = "delete_job"
    /\ api'[a].arg = j

\* C18: no step removes a Job that is pending or running: delete_job
\* answers 400 for such a Job and leaves it in place, and every row that
\* delete_job or cleanup_old_jobs removes is completed or failed, under
\* every interleaving with the workers.
C18_RemoveStep ==
    /\ \A j \in JobIds :
          (jobs[j] # NoRow /\ jobs'[j] = NoRow) =>
             jobs[j].status \in {"completed", "failed"}
    /\ \A a \in ApiProcs, j \in JobIds :
          (DeleteStarts(a, j) /\ StatusOf(j) \in {"pending", "running"}) =>
             /\ api'[a].pc = "idle" /\ api'[a].code = 400
             /\ UNCHANGED jobs

C18_NoLiveJobRemoved == [][C18_RemoveStep]_vars

\* A delete of a live Job has been rejected and the Job is in place, while
\* a finished Job has been removed.
C18_Witness ==
    \E a \in ApiProcs, k \in JobIds :
       /\ api[a].op = "delete_job" /\ api[a].code = 400
       /\ StatusOf(api[a].arg) \in {"pending", "running"}
       /\ k < nextJobId /\ jobs[k] = NoRow

\* A step reports progress on Job j, completes it or fails it: it writes
\* progress, output_data, error_message or completed_at, and is not the
\* step that claims the Job (which writes started_at).
ReportsOn(j) ==
    /\ jobs[j] # NoRow /\ jobs'[j] # NoRow
    /\ jobs'[j].started_at = jobs[j].started_at
    /\ \/ jobs'[j].progress # jobs[j].progress
       \/ jobs'[j].output_data # jobs[j].output_data
       \/ jobs'[j].error_message # jobs[j].error_message
       \/ jobs'[j].completed_at # jobs[j].completed_at
       \/ jobs'[j].status # jobs[j].status

\* C19: completing, failing or reporting progress on a Job that is not
\* running is never applied: every step that writes a Job's progress,
\* output, error or completion finds the Job in status running.
C19_ReportStep ==
    \A j \in JobIds : ReportsOn(j) => jobs[j].status = "running"

C19_OnlyOnRunning == [][C19_ReportStep]_vars

\* ===================================================================
\* Properties of the monitor loop
\* ===================================================================

\* C20: an exception raised while the monitor processes one pending Signal
\* does not stop the pass: a pass ends only when it has come to the last of
\* the pending Signals it read.
C20_PassStep ==
    \A m \in Monitors :
       (mon[m].pc # "idle" /\ mon'[m].pc = "idle") =>
          mon[m].k = Len(mon[m].pending)

C20_PassCompletes == [][C20_PassStep]_vars

\* ===================================================================
\* Properties of the worker boundary
\* ===================================================================

\* C21: every exception raised while process_scraping_job executes a Job
\* is caught at the worker boundary: when the function returns, the Job it
\* had started is completed or failed, and a failed Job carries an
\* error_message and completed_at.
C21_ExitStep ==
    \A w \in ScrapeWorkers :
       (sw[w].pc \notin {"idle", "start"} /\ sw'[w].pc = "idle") =>
          /\ jobs'[sw[w].job_id].status \in {"completed", "failed"}
          /\ jobs'[sw[w].job_id].status = "failed" =>
                /\ jobs'[sw[w].job_id].error_message # NULL
                /\ jobs'[sw[w].job_id].completed_at >= 1

C21_CaughtAtBoundary == [][C21_ExitStep]_vars


\* C22: _make_request makes at most MAX_RETRIES + 1 requests for one URL,
\* goes on to another request only after a transient HTTP or network error
\* (never after a response, a 4xx answer or another exception), and raises
\* an HTTP error only once MAX_RETRIES retries have failed, so that the
\* error reaches the Job only after the retries are exhausted.
C22_AtMost ==
    /\ fetch.requests <= MAX_RETRIES + 1
    /\ \A i \in 1..Len(fetch.results) : fetch.results[i].requests <= MAX_RETRIES + 1

C22_RetriedOnlyTransient == fetch.pc = "backoff" => fetch.last \in Transient

C22_RaisedWhenExhausted ==
    \A i \in 1..Len(fetch.results) :
       fetch.results[i].value \in Transient =>
          fetch.results[i].requests = MAX_RETRIES + 1

C22_BoundedRetry ==
    /\ C22_AtMost
    /\ C22_RetriedOnlyTransient
    /\ C22_RaisedWhenExhausted

\* C28: when every fetch made for a source's URLs has raised, the extraction
\* Job the call was made for is never completed, and once the worker has
\* left the Job it is failed with the error text, for a source of one URL
\* and for a source of several URLs.
C28_AllRaised ==
    /\ fetch.pc = "done"
    /\ fetch.n >= 1
    /\ Len(fetch.results) = fetch.n
    /\ \A i \in 1..fetch.n : fetch.results[i].value \notin Hashes

C28_CollaboratorFailureFails ==
    C28_AllRaised =>
       /\ jobs[fetch.job_id].status # "completed"
       /\ (\A w \in ScrapeWorkers : sw[w].job_id # fetch.job_id) =>
             /\ jobs[fetch.job_id].status = "failed"
             /\ jobs[fetch.job_id].error_message # NULL

\* C23: while the relay is disabled (ORACLE_ENABLED is false, or the service
\* has no ledger connection), no step of the Relay Monitor or of the relay
\* worker submits a transaction, and none changes the status or a
\* transaction field of a Signal.
C23_Disabled == ~settings.ORACLE_ENABLED \/ ~settings.web3

C23_RelayStep == mon' # mon \/ ow' # ow

C23_NoOp ==
    (C23_Disabled /\ C23_RelayStep) =>
       /\ ledger' = ledger
       /\ \A s \in SignalIds :
             /\ oracle_signals'[s].status = oracle_signals[s].status
             /\ oracle_signals'[s].tx_hash = oracle_signals[s].tx_hash
             /\ oracle_signals'[s].tx_status = oracle_signals[s].tx_status
             /\ oracle_signals'[s].sent_at = oracle_signals[s].sent_at

C23_DisabledIsNoOp == [][C23_NoOp]_vars

C25_TerminalStep ==
    /\ \A s \in SignalIds :
          oracle_signals[s].status \in {"sent", "failed"} =>
             /\ (mon' # mon \/ ow' # ow) => oracle_signals'[s] = oracle_signals[s]
             /\ (oracle_signals[s].status = "failed" /\ oracle_signals'[s].status # "failed")
                   => \E a \in ApiProcs : api[a].pc = "reset" /\ api'[a].pc # "reset"
    /\ \A j \in JobIds :
          (JobExists(j) /\ jobs[j].status = "failed") =>
             jobs'[j] # NoRow /\ jobs'[j].status = "failed"

C25_TerminalUntouched == [][C25_TerminalStep]_vars

\* C26: a Job that was committed running and whose worker is gone (no worker
\* has it in hand) keeps its row as it is in every later step: no worker,
\* no delete_job and no cleanup_old_jobs changes its status or removes it,
\* and no worker takes it up again.
C26_Orphan(j) ==
    /\ JobExists(j)
    /\ jobs[j].status = "running"
    /\ \A w \in ScrapeWorkers : sw[w].job_id # j

C26_OrphanStep ==
    \A j \in JobIds :
       C26_Orphan(j) =>
          /\ jobs'[j] = jobs[j]
          /\ \A w \in ScrapeWorkers : sw'[w].job_id # j

C26_StaysRunning == [][C26_OrphanStep]_vars

\* A Job left at the running commit by a dead worker, after delete_job was
\* refused for it and a cleanup has removed the other, finished Job.
C26_Witness ==
    \E j \in JobIds :
       /\ C26_Orphan(j)
       /\ jobs[j].progress = P000
       /\ \E a \in ApiProcs :
             api[a].op = "delete_job" /\ api[a].arg = j /\ api[a].code = 400
       /\ \E k \in JobIds : k < nextJobId /\ jobs[k] = NoRow

\* C27: with a live worker on each queue, every Job whose task is on the
\* scraping or the analysis queue eventually is completed or failed.
C27_Enqueued(j) ==
    \/ \E i \in 1..Len(scraping_queue) : scraping_queue[i].job_id = j
    \/ \E i \in 1..Len(analysis_queue) : analysis_queue[i].job_id = j

C27_Terminal(j) == JobExists(j) /\ jobs[j].status \in {"completed", "failed"}

C27_EventuallyTerminal ==
    \A j \in JobIds : C27_Enqueued(j) ~> C27_Terminal(j)

\* C29: a create_oracle_signal call that ends normally has put one task on
\* the oracle queue for a pending oracle_signal Job that references the
\* pending Signal it created; and whenever no call is between its two
\* commits, every Signal has an oracle_signal Job that references it.
C29_RelayJobs(s) ==
    {j \in JobIds : /\ JobExists(j)
                    /\ jobs[j].type = "oracle_signal"
                    /\ jobs[j].input_data[1] = s}

C29_InCall(s) == \E a \in ApiProcs : api[a].pc = "insert_job" /\ api[a].arg = s

C29_SignalHasJob == \A s \in SignalIds : ~C29_InCall(s) => C29_RelayJobs(s) # {}

C29_SuccessStep ==
    \A a \in ApiProcs :
       (/\ api[a].pc = "enqueue"
        /\ api[a].op = "create_oracle_signal"
        /\ api'[a] = IdleApi) =>
          /\ Len(oracle_queue') = Len(oracle_queue) + 1
          /\ oracle_queue'[Len(oracle_queue')].job_id = api[a].job_id
          /\ jobs'[api[a].job_id].status = "pending"
          /\ api[a].job_id \in C29_RelayJobs(api[a].arg)
          /\ oracle_signals'[api[a].arg].status = "pending"

C29_SignalWithJob == []C29_SignalHasJob /\ [][C29_SuccessStep]_vars

\* C30: every Job is created pending; once the request that created it has
\* answered, its task has been put exactly once on the queue of its type
\* (it is on that queue, or was delivered from it, once), the task is on no
\* other queue, and only a worker of its type has the Job in hand.
C30_QueueOf(type) ==
    CASE type = "scrape" -> "scraping"
      [] type = "analyze" -> "analysis"
      [] type = "oracle_signal" -> "oracle"

C30_InQueue(q, j) == Cardinality({i \in 1..Len(q) : q[i].job_id = j})

C30_Delivered(name, j) ==
    Cardinality({d \in delivered : d.queue = name /\ d.task.job_id = j})

C30_Times(name, q, j) == C30_InQueue(q, j) + C30_Delivered(name, j)

C30_BeingEnqueued(j) ==
    \E a \in ApiProcs :
       \/ api[a].pc = "enqueue" /\ api[a].job_id = j
       \/ api[a].pc = "enqueue_all" /\ j \in api[a].job_id..api[a].arg

C30_Dispatched ==
    \A j \in JobIds :
       JobExists(j) =>
          LET name == C30_QueueOf(jobs[j].type)
              s == C30_Times("scraping", scraping_queue, j)
              a == C30_Times("analysis", analysis_queue, j)
              o == C30_Times("oracle", oracle_queue, j)
          IN /\ s + a + o = IF C30_BeingEnqueued(j) THEN 0 ELSE 1
             /\ name # "scraping" => s = 0
             /\ name # "analysis" => a = 0
             /\ name # "oracle" => o = 0
             /\ (\E w \in ScrapeWorkers : sw[w].job_id = j) => jobs[j].type = "scrape"
             /\ (\E w \in AnalysisWorkers : aw[w].job_id = j) => jobs[j].type = "analyze"
             /\ (\E w \in OracleWorkers : ow[w].job_id = j) => jobs[j].type = "oracle_signal"
             /\ jobs[j].status # "pending" => C30_Delivered(name, j) = 1

C30_CreatedPending ==
    \A j \in JobIds :
       (jobs[j] = NoRow /\ jobs'[j] # NoRow) => jobs'[j].status = "pending"

C30_EnqueuedOnce == []C30_Dispatched /\ [][C30_CreatedPending]_vars

\* A relay Job delivered once from the oracle queue and completed by the
\* relay worker, while trigger_all_extractions has committed a pending
\* extraction Job that it has not enqueued yet.
C30_Witness ==
    \E j, k \in JobIds :
       /\ JobExists(j) /\ jobs[j].type = "oracle_signal" /\ jobs[j].status = "completed"
       /\ C30_Delivered("oracle", j) = 1
       /\ api["a1"].pc = "enqueue_all" /\ api["a1"].job_id = k
       /\ JobExists(k) /\ jobs[k].type = "scrape" /\ jobs[k].status = "pending"
       /\ C30_InQueue(scraping_queue, k) = 0

\* C31: two payloads that agree on their stable identifying fields (the url
\* and the page content for a web page, the id and the platform for a post)
\* get the same content_hash, whatever their field order, fetch timestamp
\* or counters.
C31_Agree(a, b, fields) == \A i \in 1..Len(fields) : Get(a, fields[i]) = Get(b, fields[i])

C31_StableHash ==
    /\ (call.fn = "ScrapingService._generate_hash" /\ call.done
          /\ C31_Agree(call.a, call.b, <<"title", "url">>)) => call.ra = call.rb
    /\ (call.fn = "SocialService._generate_hash" /\ call.done
          /\ C31_Agree(call.a, call.b, <<"id", "platform">>)) => call.ra = call.rb

\* C33: _prepare_signal gives low, medium, high and critical the wire
\* ordinals 1, 2, 3 and 4, so a higher severity gets a higher ordinal.
C33_Order == <<"low", "medium", "high", "critical">>

C33_Ordinals ==
    (call.fn = "_prepare_signal" /\ call.done) =>
       \A i, j \in 1..4 :
          /\ call.a = C33_Order[i] => call.ra = i
          /\ (call.a = C33_Order[i] /\ call.b = C33_Order[j] /\ i < j)
                => call.ra < call.rb

C33_Witness ==
    /\ call.fn = "_prepare_signal" /\ call.done
    /\ call.a = "high" /\ call.b = "critical"
    /\ call.ra = 3 /\ call.rb = 4

\* C32: a transaction handed to send_raw_transaction for one Signal never
\* carries the nonce of a transaction already submitted for another Signal
\* from the same account.
C32_SubmitStep ==
    \A m \in Monitors :
       (mon[m].pc = "submit" /\ mon'[m] # mon[m]) =>
          \A i \in 1..Len(ledger) :
             ledger[i].signal # Current(m) => ledger[i].nonce # mon[m].nonce

C32_DistinctNonces == [][C32_SubmitStep]_vars

\* C34: one execution of process_analysis_job calls the analysis
\* collaborator once: the step that ends the call either goes on to store
\* the results or leaves the Job failed with the error and the worker done,
\* and a worker past the call never comes back to it for the same execution.
C34_CallStep ==
    \A w \in AnalysisWorkers :
       /\ (aw[w].pc = "analyze" /\ aw'[w] # aw[w]) =>
             \/ /\ aw'[w].pc = "store"
                /\ jobs'[aw[w].job_id].status = "running"
             \/ /\ aw'[w].pc = "idle"
                /\ jobs'[aw[w].job_id].status = "failed"
                /\ jobs'[aw[w].job_id].error_message # NULL
       /\ aw[w].pc \in {"store", "complete"} =>
             aw'[w].pc \in {"store", "complete", "idle"}

C34_NoRetry == [][C34_CallStep]_vars

\* An analysis Job failed by the raising collaborator, left at the progress
\* committed before the call.
C34_Witness ==
    \E j \in JobIds :
       /\ JobExists(j) /\ jobs[j].type = "analyze" /\ jobs[j].status = "failed"
       /\ jobs[j].error_message = "analysis error"
       /\ jobs[j].progress = P020
       /\ aw["aw1"].pc = "idle"

\* ------------------------------------------------- RQ: the job timeout
\* backend_workers.py lines 41, 51: the tasks are enqueued with
\* job_timeout=settings.JOB_TIMEOUT; when the time is up RQ raises its timeout
\* exception inside the running function, wherever it is.  In the store loop
\* of process_scraping_job (lines 100-116) the handler at lines 133-138 marks
\* the Job failed and commits on the same session with no rollback: the
\* commit flushes the rows added so far together with the Job row.
ScrapeTimesOut(w) ==
    /\ sw[w].pc = "store"
    /\ JobExists(sw[w].job_id)
    /\ raw_events' = [h \in Hashes |-> raw_events[h] + Count(sw[w].added, h)]
    /\ jobs' = [jobs EXCEPT ![sw[w].job_id] = MarkFailed(@, "job timeout")]
    /\ sw' = [sw EXCEPT ![w] = IdleScrape]
    /\ UNCHANGED <<nextJobId, scraping_queue, analysis_queue, oracle_queue, aw, ow,
                   datasets, analysis_results, oracle_signals, api, mon, ledger, settings,
                   delivered, requeues,
                   fetch, call>>

\* the same in the store loop of process_analysis_job (lines 184-199) with
\* the handler at lines 215-220: the first n results were added, the Dataset
\* row is not yet touched
AnalysisTimesOut(w) ==
    /\ aw[w].pc = "store"
    /\ JobExists(aw[w].job_id)
    /\ \E n \in 0..Len(aw[w].results) :
         analysis_results' = analysis_results \o SubSeq(aw[w].results, 1, n)
    /\ jobs' = [jobs EXCEPT ![aw[w].job_id] = MarkFailed(@, "job timeout")]
    /\ aw' = [aw EXCEPT ![w] = IdleAnalysis]
    /\ UNCHANGED <<nextJobId, scraping_queue, analysis_queue, oracle_queue, sw, ow,
                   raw_events, datasets, oracle_signals, api, mon, ledger, settings,
                   delivered, requeues,
                   fetch, call>>

TimeoutNext ==
    \/ ScrapeApi({"a1"}) \/ ScrapeWork({"sw1"})
    \/ AnalysisApi({"a1"}) \/ AnalysisWork({"aw1"})
    \/ ScrapeTimesOut("sw1")
    \/ AnalysisTimesOut("aw1")

SpecTimeout == Init /\ [][TimeoutNext]_vars

\* C35: a Job that ends failed has persisted nothing of its work: the step
\* that marks a Job failed leaves the Records, the AnalysisResults and the
\* Datasets as they were, and is taken by a worker that has not yet committed
\* its rows, so the failure commit stores the Job row alone.
C35_FailStep ==
    \A j \in JobIds :
       (JobExists(j) /\ jobs[j].status # "failed" /\ jobs'[j].status = "failed") =>
          /\ raw_events' = raw_events
          /\ analysis_results' = analysis_results
          /\ datasets' = datasets
          /\ \A w \in ScrapeWorkers : sw[w].job_id = j => sw[w].pc # "complete"
          /\ \A w \in AnalysisWorkers : aw[w].job_id = j => aw[w].pc # "complete"
C35_NothingPersisted == [][C35_FailStep]_vars

\* C36: a Signal is sent exactly when its tx_hash is set; a sent Signal has
\* tx_status confirmed and sent_at set; a pending or failed Signal has
\* tx_hash, tx_status and sent_at all null.
C36_SentIffHash ==
    \A s \in SignalIds :
       /\ (oracle_signals[s].status = "sent") = (oracle_signals[s].tx_hash # 0)
       /\ oracle_signals[s].status = "sent" =>
             /\ oracle_signals[s].tx_status = "confirmed"
             /\ oracle_signals[s].sent_at # 0
       /\ oracle_signals[s].status \in {"pending", "failed"} =>
             /\ oracle_signals[s].tx_hash = 0
             /\ oracle_signals[s].tx_status = NULL
             /\ oracle_signals[s].sent_at = 0

\* C37: at most one oracle_signal Job in status pending or running
\* references a given Signal, whatever requests were made.
C37_ActiveRelayJobs(s) ==
    {j \in JobIds : /\ JobExists(j)
                    /\ jobs[j].type = "oracle_signal"
                    /\ jobs[j].input_data[1] = s
                    /\ jobs[j].status \in {"pending", "running"}}

C37_OneActiveRelayJob ==
    \A s \in SignalIds : Cardinality(C37_ActiveRelayJobs(s)) <= 1

\* C38: with the monitor loop left to run, every Signal that is pending with
\* severity high or critical is eventually out of pending (sent or failed),
\* whether or not its relay Job is ever taken by a worker.
C38_Pending(s) ==
    /\ s \in SignalIds
    /\ oracle_signals[s].status = "pending"
    /\ oracle_signals[s].severity \in {"high", "critical"}
    /\ oracle_signals[s].analysis_result_id \in DOMAIN analysis_results

C38_Relayed(s) == s \in SignalIds /\ oracle_signals[s].status \in {"sent", "failed"}

C38_EventuallyRelayed == \A s \in 1..MaxSignals : C38_Pending(s) ~> C38_Relayed(s)

\* The monitor has moved a Signal out of pending while the Signal's relay
\* Job is still pending and no worker has taken it.
C38_Witness ==
    \E s \in SignalIds :
       /\ C38_Relayed(s)
       /\ mon["m1"].pc = "idle"
       /\ ow["ow1"].pc = "idle"
       /\ \E j \in JobIds : /\ JobExists(j) /\ jobs[j].type = "oracle_signal"
                            /\ jobs[j].input_data[1] = s /\ jobs[j].status = "pending"
       /\ \A j \in JobIds : JobExists(j) => jobs[j].status = "pending"

\* The pipelines with the Job maintenance requests.
QueueNext == Next \/ JobsApi({"a1"})

SpecQueue == Init /\ [][QueueNext]_vars

\* C39: a task is on a queue only when its Job row is committed: the Job of
\* every task on the scraping and analysis queues exists with status pending
\* and the type of the queue, and so does the Job of a task a worker has
\* taken and not yet looked up; the lookup of lines 71-74 never misses.
C39_Found(job_id, type) ==
    /\ JobExists(job_id)
    /\ jobs[job_id].type = type
    /\ jobs[job_id].status = "pending"

C39_TaskHasPendingJob ==
    /\ \A i \in DOMAIN scraping_queue : C39_Found(scraping_queue[i].job_id, "scrape")
    /\ \A i \in DOMAIN analysis_queue : C39_Found(analysis_queue[i].job_id, "analyze")
    /\ \A w \in ScrapeWorkers : sw[w].pc = "start" => C39_Found(sw[w].job_id, "scrape")
    /\ \A w \in AnalysisWorkers : aw[w].pc = "start" => C39_Found(aw[w].job_id, "analyze")

\* A worker has taken a task and is about to look its Job up, after an
\* earlier Job was deleted.
C39_Witness ==
    /\ \/ sw["sw1"].pc = "start"
       \/ aw["aw1"].pc = "start"
    /\ \E j \in JobIds : j < nextJobId /\ ~JobExists(j)

====
